---- MODULE Spec2Model ----
(***************************************************************************)
(* Model of the app manager of OSP_aoapps (src/src/aoapps_mngr.cpp):       *)
(* the registry of apps, the supervisor start/step/stop/switch/switchnext, *)
(* the "with topo" wrapper, the repair tick and the status reporting.      *)
(*                                                                         *)
(* One API call of the manager is one action.  The collaborators outside   *)
(* this repository (the apps' own start/step, the topo builder, the        *)
(* telegram layer) are inputs of the action: each call of a collaborator   *)
(* returns a value drawn from a small set.  millis() is read as one value  *)
(* during an API call; the clock advances between the calls (Tick).        *)
(***************************************************************************)
EXTENDS Integers, Sequences, FiniteSets, TLC

\* ---------------------------------------------------------------- bounds
\* number of clock advances in one behaviour
MaxTicks == 2
\* number of polls of the topo builder that find the build not done, in one
\* activation (counted in SpecTopo)
MaxPolls == 3

\* clock advances in a behaviour of the time specification
MaxTimeTicks == 4

\* clock advances in a behaviour of the liveness specification
MaxLiveTicks == 2
MaxWrapTicks == 3

\* ------------------------------------------------------ program constants
AOAPPS_MNGR_REGISTRATION_SLOTS == 8
AOAPPS_MNGR_FLAGS_NONE == 0
AOAPPS_MNGR_FLAGS_WITHTOPO == 1
AOAPPS_MNGR_FLAGS_WITHREPAIR == 2
AOAPPS_MNGR_FLAGS_NEXTONERR == 4
AOAPPS_MNGR_FLAGS_ALL == 7
AOAPPS_MNGR_HEARTBEAT_MS == 500
AOAPPS_MNGR_REPAIR_MS == 250
AOAPPS_MNGR_ERROR_MS == 10000

\* uint32_t arithmetic of the timestamps.  A uint32_t is the pair <<hi, lo>> of
\* its 16-bit halves (its value is hi * 2^16 + lo), so that the arithmetic is
\* modulo 2^32 exactly.
H16 == 65536
U32(n) == << (n \div H16) % H16, n % H16 >>
Sub32(a, b) ==
  LET borrow == IF a[2] < b[2] THEN 1 ELSE 0
  IN << (a[1] - b[1] - borrow + H16) % H16, (a[2] - b[2] + H16) % H16 >>
Add32(a, b) ==
  LET carry == (a[2] + b[2]) \div H16
  IN << (a[1] + b[1] + carry) % H16, (a[2] + b[2]) % H16 >>
Gt32(a, b) == a[1] > b[1] \/ (a[1] = b[1] /\ a[2] > b[2])

\* flags & bit, for a single-bit mask
HasFlag(flags, bit) == (flags \div bit) % 2 = 1

\* aoresult_t: ok and two distinct error codes
aoresult_ok == "ok"
Results == {"ok", "E1", "E2"}

\* a null char pointer; a string is the sequence of its characters
NULL == <<"NULL">>
AlnumChars ==
  {"0", "1", "2", "3", "4", "5", "6", "7", "8", "9",
   "a", "b", "c", "d", "e", "f", "g", "h", "i", "j", "k", "l", "m",
   "n", "o", "p", "q", "r", "s", "t", "u", "v", "w", "x", "y", "z",
   "A", "B", "C", "D", "E", "F", "G", "H", "I", "J", "K", "L", "M",
   "N", "O", "P", "Q", "R", "S", "T", "U", "V", "W", "X", "Y", "Z"}
isalnum(c) == c \in AlnumChars

\* ------------------------------------------------------------ descriptors
\* an unused slot of aoapps_mngr_apps[] (static storage is zero-initialised)
ZeroApp ==
  [name |-> NULL, oled |-> NULL, xlbl |-> NULL, ylbl |-> NULL, flags |-> 0,
   start |-> 0, step |-> 0, stop |-> 0, cmd |-> 0, help |-> NULL]

\* function pointers: 0 is null, voidapp_fn stands for the three functions of the
\* void app, app_fn for the functions of an app outside the manager
voidapp_fn == 1
app_fn == 2

\* the descriptor aoapps_mngr_voidapp_register() passes
VoidApp ==
  [name |-> <<"v", "o", "i", "d", "a", "p", "p">>, oled |-> <<"U">>, xlbl |-> <<"-">>, ylbl |-> <<"-">>,
   flags |-> 0, start |-> voidapp_fn, step |-> voidapp_fn, stop |-> voidapp_fn,
   cmd |-> 0, help |-> NULL]

\* a well-formed descriptor of an app with the given name and flags
\* (the shape the register calls of the apps of this repository have)
MkApp(nm, fl) ==
  [name |-> nm, oled |-> <<"O">>, xlbl |-> <<"x">>, ylbl |-> <<"y">>,
   flags |-> fl, start |-> app_fn, step |-> app_fn, stop |-> app_fn,
   cmd |-> 0, help |-> NULL]

\* descriptors the main specification registers
Descs ==
  { MkApp(<<"b">>, AOAPPS_MNGR_FLAGS_NEXTONERR),
    MkApp(<<"a", "1">>, AOAPPS_MNGR_FLAGS_WITHTOPO + AOAPPS_MNGR_FLAGS_WITHREPAIR) }

\* -------------------------------------------------------------- the state
VARIABLES
  aoapps_mngr_count,       \* number of registered apps
  aoapps_mngr_apps,        \* the descriptors, slot 0..SLOTS-1
  aoapps_mngr_appix,       \* index of the current app
  aoapps_mngr_moderun,     \* 1 running, 0 stopped
  aoapps_mngr_result,      \* the error latch
  aoapps_mngr_lastgrn,     \* time of the last heartbeat update
  aoapps_mngr_lastrepair,  \* time of the last repair
  aoapps_mngr_lasterror,   \* time the last error was shown
  aoapps_mngr_state,       \* state of the "with topo" wrapper
  aoapps_mngr_error,       \* last error of the "with topo" wrapper
  millis,                  \* the millisecond clock (uint32_t)
  led_grn, led_red,        \* the signaling LEDs
  halted,                  \* an AORESULT_ASSERT failed, or the CPU trapped
  modzero,                 \* the last API call evaluated a modulo by zero
  calls,                   \* collaborator calls made by the last API call
  op,                      \* the last API call that returned, and its argument
  nstart,                  \* calls of the app's own start() in this activation
  startres,                \* what the last of them returned ("none" before it)
  ticks,                   \* number of clock advances so far
  npoll                    \* polls that found the build not done (SpecTopo)

vars ==
  << aoapps_mngr_count, aoapps_mngr_apps, aoapps_mngr_appix, aoapps_mngr_moderun,
     aoapps_mngr_result, aoapps_mngr_lastgrn, aoapps_mngr_lastrepair,
     aoapps_mngr_lasterror, aoapps_mngr_state, aoapps_mngr_error, millis,
     led_grn, led_red, halted, modzero, calls, op, nstart, startres, ticks, npoll >>

\* the manager's state as one record, so that the functions of the source can
\* be composed the way the source calls them; ret is the value a function returns
St ==
  [count |-> aoapps_mngr_count, apps |-> aoapps_mngr_apps,
   appix |-> aoapps_mngr_appix, moderun |-> aoapps_mngr_moderun,
   result |-> aoapps_mngr_result, lastgrn |-> aoapps_mngr_lastgrn,
   lastrepair |-> aoapps_mngr_lastrepair, lasterror |-> aoapps_mngr_lasterror,
   state |-> aoapps_mngr_state, error |-> aoapps_mngr_error,
   grn |-> led_grn, red |-> led_red, halted |-> halted, modzero |-> FALSE,
   calls |-> <<>>, nstart |-> nstart, startres |-> startres,
   ret |-> aoresult_ok]

\* the API call leaves the manager in state s
Apply(s) ==
  /\ aoapps_mngr_count' = s.count
  /\ aoapps_mngr_apps' = s.apps
  /\ aoapps_mngr_appix' = s.appix
  /\ aoapps_mngr_moderun' = s.moderun
  /\ aoapps_mngr_result' = s.result
  /\ aoapps_mngr_lastgrn' = s.lastgrn
  /\ aoapps_mngr_lastrepair' = s.lastrepair
  /\ aoapps_mngr_lasterror' = s.lasterror
  /\ aoapps_mngr_state' = s.state
  /\ aoapps_mngr_error' = s.error
  /\ led_grn' = s.grn
  /\ led_red' = s.red
  /\ halted' = s.halted
  /\ modzero' = s.modzero
  /\ calls' = s.calls
  /\ nstart' = s.nstart
  /\ startres' = s.startres

\* a call of a collaborator: fn is the function, ix the app it belongs to (or -1)
Ev(fn, ix) == [fn |-> fn, ix |-> ix]
Call(s, fn, ix) == [s EXCEPT !.calls = Append(@, Ev(fn, ix))]

\* the API call fn(ix) has returned, unless the program was stopped in it
Returned(s, fn, ix) == op' = IF s.halted THEN op ELSE Ev(fn, ix)

\* AORESULT_ASSERT(c) with c false: the program does not continue
AssertFail(s) == [s EXCEPT !.halted = TRUE]

\* ---------------------------------------------------------- registration
\* 0==(flags & ~AOAPPS_MNGR_FLAGS_ALL), for an int flags
FlagsLegal(flags) == flags >= 0 /\ flags \div (AOAPPS_MNGR_FLAGS_ALL + 1) = 0

\* aoapps_mngr_register() that stores into the slot after the increment
register_preinc(s, d) ==
  IF ~(s.count < AOAPPS_MNGR_REGISTRATION_SLOTS) THEN AssertFail(s)
  ELSE [s EXCEPT !.count = s.count + 1, !.apps[s.count + 1] = d]

\* aoapps_mngr_register() that reuses the last slot when all slots are used
register_reuselast(s, d) ==
  IF ~(s.count < AOAPPS_MNGR_REGISTRATION_SLOTS)
  THEN [s EXCEPT !.apps[AOAPPS_MNGR_REGISTRATION_SLOTS - 1] = d]
  ELSE [s EXCEPT !.count = s.count + 1, !.apps[s.count] = d]

\* aoapps_mngr_register() without the check of cmd against help
register_nocmdcheck(s, d) ==
  IF ~(s.count < AOAPPS_MNGR_REGISTRATION_SLOTS) THEN AssertFail(s)
  ELSE IF ~(d.name # NULL /\ d.oled # NULL /\ d.xlbl # NULL /\ d.ylbl # NULL
            /\ d.start # 0 /\ d.step # 0 /\ d.stop # 0) THEN AssertFail(s)
  ELSE IF ~FlagsLegal(d.flags) THEN AssertFail(s)
  ELSE IF ~(\A i \in 1..Len(d.name) : isalnum(d.name[i])) THEN AssertFail(s)
  ELSE [s EXCEPT !.count = s.count + 1, !.apps[s.count] = d]

\* aoapps_mngr_register() that makes the app it registers the current app
register_makecurrent(s, d) ==
  IF ~(s.count < AOAPPS_MNGR_REGISTRATION_SLOTS) THEN AssertFail(s)
  ELSE IF ~(d.name # NULL /\ d.oled # NULL /\ d.xlbl # NULL /\ d.ylbl # NULL
            /\ d.start # 0 /\ d.step # 0 /\ d.stop # 0) THEN AssertFail(s)
  ELSE IF ~((d.cmd = 0) = (d.help = NULL)) THEN AssertFail(s)
  ELSE IF ~FlagsLegal(d.flags) THEN AssertFail(s)
  ELSE IF ~(\A i \in 1..Len(d.name) : isalnum(d.name[i])) THEN AssertFail(s)
  ELSE [s EXCEPT !.count = s.count + 1, !.apps[s.count] = d, !.appix = s.count]

\* aoapps_mngr_register()
register(s, d) ==
  IF ~(s.count < AOAPPS_MNGR_REGISTRATION_SLOTS) THEN AssertFail(s)
  ELSE IF ~(d.name # NULL /\ d.oled # NULL /\ d.xlbl # NULL /\ d.ylbl # NULL
            /\ d.start # 0 /\ d.step # 0 /\ d.stop # 0) THEN AssertFail(s)
  ELSE IF ~((d.cmd = 0) = (d.help = NULL)) THEN AssertFail(s)
  ELSE IF ~FlagsLegal(d.flags) THEN AssertFail(s)
  ELSE IF ~(\A i \in 1..Len(d.name) : isalnum(d.name[i])) THEN AssertFail(s)
  ELSE [s EXCEPT !.count = s.count + 1, !.apps[s.count] = d]

\* aoapps_mngr_voidapp_register()
voidapp_register(s) == register(s, VoidApp)

\* aoapps_mngr_init() that leaves the run mode as it is
init_keeprun(s) ==
  LET s1 == [s EXCEPT !.count = 0, !.appix = 0, !.result = aoresult_ok]
      s2 == voidapp_register(s1)
  IN [s2 EXCEPT !.lastgrn = millis, !.lastrepair = millis, !.lasterror = millis]

\* aoapps_mngr_init()
init(s) ==
  LET s1 == [s EXCEPT !.count = 0, !.appix = 0, !.moderun = 0,
                      !.result = aoresult_ok]
      s2 == voidapp_register(s1)
  IN [s2 EXCEPT !.lastgrn = millis, !.lastrepair = millis, !.lasterror = millis]

\* ------------------------------------------------------- status and repair
\* aoapps_mngr_showstatus() with the repair period as the heartbeat period
showstatus_fast(s) ==
  IF s.result # aoresult_ok
  THEN LET s1 == [s EXCEPT !.lasterror = millis, !.grn = FALSE, !.red = TRUE]
       IN Call(Call(Call(Call(s1, "led_off_grn", -1), "led_on_red", -1),
                    "serial_error", s.appix), "oled_msg", -1)
  ELSE IF Gt32(Sub32(millis, s.lastgrn), U32(AOAPPS_MNGR_REPAIR_MS))
       THEN Call([s EXCEPT !.grn = ~s.grn, !.lastgrn = millis], "led_toggle_grn", -1)
       ELSE s

\* aoapps_mngr_showstatus()
showstatus(s) ==
  IF s.result # aoresult_ok
  THEN LET s1 == [s EXCEPT !.lasterror = millis, !.grn = FALSE, !.red = TRUE]
       IN Call(Call(Call(Call(s1, "led_off_grn", -1), "led_on_red", -1),
                    "serial_error", s.appix), "oled_msg", -1)
  ELSE IF Gt32(Sub32(millis, s.lastgrn), U32(AOAPPS_MNGR_HEARTBEAT_MS))
       THEN Call([s EXCEPT !.grn = ~s.grn, !.lastgrn = millis], "led_toggle_grn", -1)
       ELSE s

\* aoapps_mngr_repair() with >= in place of > in the check of the period
repair_ge(s, clr, act) ==
  IF ~Gt32(U32(AOAPPS_MNGR_REPAIR_MS), Sub32(millis, s.lastrepair))
  THEN LET s1 == Call(s, "send_clrerror", -1)
       IN IF clr # aoresult_ok THEN [s1 EXCEPT !.ret = clr]
          ELSE LET s2 == Call(s1, "send_goactive", -1)
               IN IF act # aoresult_ok THEN [s2 EXCEPT !.ret = act]
                  ELSE [s2 EXCEPT !.lastrepair = millis, !.ret = aoresult_ok]
  ELSE [s EXCEPT !.ret = aoresult_ok]

\* aoapps_mngr_repair() that sends go active also after a failed clear error
repair_sendboth(s, clr, act) ==
  IF Gt32(Sub32(millis, s.lastrepair), U32(AOAPPS_MNGR_REPAIR_MS))
  THEN LET s2 == Call(Call(s, "send_clrerror", -1), "send_goactive", -1)
       IN IF clr # aoresult_ok THEN [s2 EXCEPT !.ret = clr]
          ELSE IF act # aoresult_ok THEN [s2 EXCEPT !.ret = act]
          ELSE [s2 EXCEPT !.lastrepair = millis, !.ret = aoresult_ok]
  ELSE [s EXCEPT !.ret = aoresult_ok]

\* aoapps_mngr_repair(); clr and act are what the two broadcasts return
repair(s, clr, act) ==
  IF Gt32(Sub32(millis, s.lastrepair), U32(AOAPPS_MNGR_REPAIR_MS))
  THEN LET s1 == Call(s, "send_clrerror", -1)
       IN IF clr # aoresult_ok THEN [s1 EXCEPT !.ret = clr]
          ELSE LET s2 == Call(s1, "send_goactive", -1)
               IN IF act # aoresult_ok THEN [s2 EXCEPT !.ret = act]
                  ELSE [s2 EXCEPT !.lastrepair = millis, !.ret = aoresult_ok]
  ELSE [s EXCEPT !.ret = aoresult_ok]

\* ------------------------------------------------------- "with topo" wrapper
\* a void app whose functions return r as the functions of the other apps do
FnResult_any(fn, r) == r

\* aoapps_mngr_voidapp_start() and aoapps_mngr_voidapp_step() return ok;
\* the function of another app returns r
FnResult(fn, r) == IF fn = voidapp_fn THEN aoresult_ok ELSE r

\* aoapps_mngr_apps[aoapps_mngr_appix].start() is called
app_start(s, r) ==
  [Call(s, "app_start", s.appix) EXCEPT
     !.nstart = s.nstart + 1, !.startres = FnResult(s.apps[s.appix].start, r),
     !.ret = FnResult(s.apps[s.appix].start, r)]

\* aoapps_mngr_apps[aoapps_mngr_appix].step() is called
app_step(s, r) ==
  [Call(s, "app_step", s.appix) EXCEPT !.ret = FnResult(s.apps[s.appix].step, r)]

\* aoapps_mngr_startwithtopo() that leaves the state of the wrapper alone
startwithtopo_keepstate(s) ==
  LET s1 == [s EXCEPT !.error = aoresult_ok]
      s2 == Call(s1, "topo_build_start", -1)
  IN [s2 EXCEPT !.ret = s2.error]

\* aoapps_mngr_startwithtopo()
startwithtopo(s) ==
  LET s1 == [s EXCEPT !.error = aoresult_ok, !.state = "TOPOBUILD"]
      s2 == Call(s1, "topo_build_start", -1)
  IN [s2 EXCEPT !.ret = s2.error]

\* aoapps_mngr_stepwithtopo() that stays in TOPOBUILD after the app's start()
stepwithtopo_restart(s, done, r) ==
  CASE s.state = "TOPOBUILD" ->
         LET s0 == Call(s, "topo_build_done", -1)
         IN IF ~done
            THEN LET s1 == [Call(s0, "topo_build_step", -1) EXCEPT !.error = r]
                     s2 == IF s1.error # aoresult_ok
                           THEN [s1 EXCEPT !.state = "ERROR"] ELSE s1
                 IN [s2 EXCEPT !.ret = aoresult_ok]
            ELSE LET s1 == Call(s0, "topo_numtriplets", -1)
                     s2 == app_start(s1, r)
                     s3 == [s2 EXCEPT !.error = s2.ret]
                 IN [s3 EXCEPT !.ret = s3.error]
    [] s.state = "APPANIM" ->
         LET s1 == app_step(s, r)
             s2 == [s1 EXCEPT !.error = s1.ret]
             s3 == IF s2.error # aoresult_ok
                   THEN [s2 EXCEPT !.state = "ERROR"] ELSE s2
         IN [s3 EXCEPT !.ret = s3.error]
    [] s.state = "ERROR" -> [s EXCEPT !.ret = s.error]

\* aoapps_mngr_stepwithtopo() that goes on building after a failed build step
stepwithtopo_keepbuilding(s, done, r) ==
  CASE s.state = "TOPOBUILD" ->
         LET s0 == Call(s, "topo_build_done", -1)
         IN IF ~done
            THEN LET s1 == [Call(s0, "topo_build_step", -1) EXCEPT !.error = r]
                 IN [s1 EXCEPT !.ret = aoresult_ok]
            ELSE LET s1 == Call(s0, "topo_numtriplets", -1)
                     s2 == app_start(s1, r)
                     s3 == [s2 EXCEPT !.error = s2.ret]
                     s5 == [s3 EXCEPT !.state = "APPANIM"]
                 IN [s5 EXCEPT !.ret = s5.error]
    [] s.state = "APPANIM" ->
         LET s1 == app_step(s, r)
             s2 == [s1 EXCEPT !.error = s1.ret]
             s3 == IF s2.error # aoresult_ok
                   THEN [s2 EXCEPT !.state = "ERROR"] ELSE s2
         IN [s3 EXCEPT !.ret = s3.error]
    [] s.state = "ERROR" -> [s EXCEPT !.ret = s.error]

\* aoapps_mngr_stepwithtopo() that reports ok in ERROR
stepwithtopo_errorok(s, done, r) ==
  CASE s.state = "TOPOBUILD" ->
         LET s0 == Call(s, "topo_build_done", -1)
         IN IF ~done
            THEN LET s1 == [Call(s0, "topo_build_step", -1) EXCEPT !.error = r]
                     s2 == IF s1.error # aoresult_ok
                           THEN [s1 EXCEPT !.state = "ERROR"] ELSE s1
                 IN [s2 EXCEPT !.ret = aoresult_ok]
            ELSE LET s1 == Call(s0, "topo_numtriplets", -1)
                     s2 == app_start(s1, r)
                     s3 == [s2 EXCEPT !.error = s2.ret]
                     s5 == [s3 EXCEPT !.state = "APPANIM"]
                 IN [s5 EXCEPT !.ret = s5.error]
    [] s.state = "APPANIM" ->
         LET s1 == app_step(s, r)
             s2 == [s1 EXCEPT !.error = s1.ret]
             s3 == IF s2.error # aoresult_ok
                   THEN [s2 EXCEPT !.state = "ERROR"] ELSE s2
         IN [s3 EXCEPT !.ret = s3.error]
    [] s.state = "ERROR" -> [s EXCEPT !.ret = aoresult_ok]

\* aoapps_mngr_stepwithtopo() that goes on polling when the build is done
stepwithtopo_stuck(s, done, r) ==
  CASE s.state = "TOPOBUILD" ->
         [Call(s, "topo_build_done", -1) EXCEPT !.ret = aoresult_ok]
    [] s.state = "APPANIM" ->
         LET s1 == app_step(s, r)
             s2 == [s1 EXCEPT !.error = s1.ret]
             s3 == IF s2.error # aoresult_ok
                   THEN [s2 EXCEPT !.state = "ERROR"] ELSE s2
         IN [s3 EXCEPT !.ret = s3.error]
    [] s.state = "ERROR" -> [s EXCEPT !.ret = s.error]

\* aoapps_mngr_stepwithtopo(); done is what aomw_topo_build_done() returns, r
\* what the one function this step calls returns (aomw_topo_build_step(), the
\* app's own start() or the app's own step())
stepwithtopo(s, done, r) ==
  CASE s.state = "TOPOBUILD" ->
         LET s0 == Call(s, "topo_build_done", -1)
         IN IF ~done
            THEN LET s1 == [Call(s0, "topo_build_step", -1) EXCEPT !.error = r]
                     s2 == IF s1.error # aoresult_ok
                           THEN [s1 EXCEPT !.state = "ERROR"] ELSE s1
                 IN [s2 EXCEPT !.ret = aoresult_ok]
            ELSE LET s1 == Call(s0, "topo_numtriplets", -1)
                     s2 == app_start(s1, r)
                     s3 == [s2 EXCEPT !.error = s2.ret]
                     s4 == IF s3.error # aoresult_ok
                           THEN [s3 EXCEPT !.state = "ERROR"] ELSE s3
                     s5 == [s4 EXCEPT !.state = "APPANIM"]
                 IN [s5 EXCEPT !.ret = s5.error]
    [] s.state = "APPANIM" ->
         LET s1 == app_step(s, r)
             s2 == [s1 EXCEPT !.error = s1.ret]
             s3 == IF s2.error # aoresult_ok
                   THEN [s2 EXCEPT !.state = "ERROR"] ELSE s2
         IN [s3 EXCEPT !.ret = s3.error]
    [] s.state = "ERROR" -> [s EXCEPT !.ret = s.error]

\* --------------------------------------------------------------- supervisor
\* aoapps_mngr_start() without the check of appix
start_norange(s, appix, app) ==
  IF s.halted THEN s
  ELSE IF ~(s.count > 0) THEN AssertFail(s)
  ELSE IF ~(s.moderun = 0) THEN AssertFail(s)
  ELSE
    LET s1 == [s EXCEPT !.appix = appix, !.nstart = 0, !.startres = "none"]
        s2 == Call(s1, "oled_state", s1.appix)
        s3 == [s2 EXCEPT !.moderun = 1]
        s4 == [Call(s3, "led_off_grn_red", -1) EXCEPT !.grn = FALSE, !.red = FALSE]
        s5 == [Call(s4, "led_on_grn", -1) EXCEPT !.grn = TRUE, !.lastgrn = millis]
        s6 == IF 0 <= appix /\ appix < AOAPPS_MNGR_REGISTRATION_SLOTS
                 /\ HasFlag(s5.apps[s5.appix].flags, AOAPPS_MNGR_FLAGS_WITHTOPO)
              THEN startwithtopo(s5)
              ELSE [Call(s5, "app_start", s5.appix) EXCEPT !.nstart = 1, !.startres = app, !.ret = app]
        s7 == [s6 EXCEPT !.result = s6.ret]
    IN showstatus(s7)

\* aoapps_mngr_start() that sets the latch only from the app's own start()
start_stalelatch(s, appix, app) ==
  IF s.halted THEN s
  ELSE IF ~(s.count > 0) THEN AssertFail(s)
  ELSE IF ~(s.moderun = 0) THEN AssertFail(s)
  ELSE IF ~(0 <= appix /\ appix < s.count) THEN AssertFail(s)
  ELSE
    LET s1 == [s EXCEPT !.appix = appix, !.nstart = 0, !.startres = "none"]
        s2 == Call(s1, "oled_state", s1.appix)
        s3 == [s2 EXCEPT !.moderun = 1]
        s4 == [Call(s3, "led_off_grn_red", -1) EXCEPT !.grn = FALSE, !.red = FALSE]
        s5 == [Call(s4, "led_on_grn", -1) EXCEPT !.grn = TRUE, !.lastgrn = millis]
        s7 == IF HasFlag(s5.apps[s5.appix].flags, AOAPPS_MNGR_FLAGS_WITHTOPO)
              THEN startwithtopo(s5)
              ELSE LET s6 == app_start(s5, app) IN [s6 EXCEPT !.result = s6.ret]
    IN showstatus(s7)

\* aoapps_mngr_start() that does not switch the signaling LEDs off
start_keepleds(s, appix, app) ==
  IF s.halted THEN s
  ELSE IF ~(s.count > 0) THEN AssertFail(s)
  ELSE IF ~(s.moderun = 0) THEN AssertFail(s)
  ELSE IF ~(0 <= appix /\ appix < s.count) THEN AssertFail(s)
  ELSE
    LET s1 == [s EXCEPT !.appix = appix, !.nstart = 0, !.startres = "none"]
        s2 == Call(s1, "oled_state", s1.appix)
        s3 == [s2 EXCEPT !.moderun = 1]
        s4 == s3
        s5 == [Call(s4, "led_on_grn", -1) EXCEPT !.grn = TRUE, !.lastgrn = millis]
        s6 == IF HasFlag(s5.apps[s5.appix].flags, AOAPPS_MNGR_FLAGS_WITHTOPO)
              THEN startwithtopo(s5)
              ELSE app_start(s5, app)
        s7 == [s6 EXCEPT !.result = s6.ret]
    IN showstatus(s7)

\* aoapps_mngr_start(); app is what the app's own start() returns.
\* nstart counts the app's own start() calls of the activation that begins here.
start(s, appix, app) ==
  IF s.halted THEN s
  ELSE IF ~(s.count > 0) THEN AssertFail(s)
  ELSE IF ~(s.moderun = 0) THEN AssertFail(s)
  ELSE IF ~(0 <= appix /\ appix < s.count) THEN AssertFail(s)
  ELSE
    LET s1 == [s EXCEPT !.appix = appix, !.nstart = 0, !.startres = "none"]
        s2 == Call(s1, "oled_state", s1.appix)
        s3 == [s2 EXCEPT !.moderun = 1]
        s4 == [Call(s3, "led_off_grn_red", -1) EXCEPT !.grn = FALSE, !.red = FALSE]
        s5 == [Call(s4, "led_on_grn", -1) EXCEPT !.grn = TRUE, !.lastgrn = millis]
        s6 == IF HasFlag(s5.apps[s5.appix].flags, AOAPPS_MNGR_FLAGS_WITHTOPO)
              THEN startwithtopo(s5)
              ELSE app_start(s5, app)
        s7 == [s6 EXCEPT !.result = s6.ret]
    IN showstatus(s7)

\* aoapps_mngr_stop() that does not record the new run mode
stop_keeprunning(s) ==
  IF s.halted THEN s
  ELSE IF ~(s.moderun # 0) THEN AssertFail(s)
  ELSE Call(s, "app_stop", s.appix)

\* aoapps_mngr_stop() that also takes the error out of the latch and switches
\* the red LED off
stop_clearlatch(s) ==
  IF s.halted THEN s
  ELSE IF ~(s.moderun # 0) THEN AssertFail(s)
  ELSE [Call(s, "app_stop", s.appix) EXCEPT !.moderun = 0, !.result = aoresult_ok,
                                            !.red = FALSE]

\* aoapps_mngr_stop()
stop(s) ==
  IF s.halted THEN s
  ELSE IF ~(s.moderun # 0) THEN AssertFail(s)
  ELSE [Call(s, "app_stop", s.appix) EXCEPT !.moderun = 0]

\* aoapps_mngr_switch() that leaves out the stop of an app in error
switch_skipstop(s, appix, app) ==
  IF s.result # aoresult_ok /\ s.moderun # 0 /\ ~s.halted
  THEN start([s EXCEPT !.moderun = 0], appix, app)
  ELSE start(stop(s), appix, app)

\* aoapps_mngr_switch()
switch(s, appix, app) == start(stop(s), appix, app)

\* the argument with a wrap that includes the void app
switchnext_ix_wrap0(appix, count) == (appix + 1) % count

\* the argument without a wrap
switchnext_ix_nowrap(appix, count) == appix + 1

\* the argument aoapps_mngr_switchnext() passes to aoapps_mngr_switch()
switchnext_ix(appix, count) == (appix % (count - 1)) + 1

\* aoapps_mngr_switchnext().  With count==1 the argument is a modulo by zero,
\* evaluated before aoapps_mngr_switch() is entered: undefined behaviour, which
\* either traps (ubtrap) or yields some value ubval.
switchnext(s, app, ubtrap, ubval) ==
  IF s.halted THEN s
  ELSE IF s.count - 1 = 0
  THEN LET s1 == [s EXCEPT !.modzero = TRUE]
       IN IF ubtrap THEN [s1 EXCEPT !.halted = TRUE]
          ELSE switch(s1, ubval + 1, app)
  ELSE switch(s, switchnext_ix(s.appix, s.count), app)

\* the timeout check with >= in place of >
ErrorTimeout_ge(s) == ~Gt32(U32(AOAPPS_MNGR_ERROR_MS), Sub32(millis, s.lasterror))

\* the timeout as a comparison of the clock with the time of the error plus
\* the timeout
ErrorTimeout_deadline(s) ==
  Gt32(millis, Add32(s.lasterror, U32(AOAPPS_MNGR_ERROR_MS)))

\* the time since the last shown error has passed the timeout
ErrorTimeout(s) == Gt32(Sub32(millis, s.lasterror), U32(AOAPPS_MNGR_ERROR_MS))

\* aoapps_mngr_step() with an error in the latch: nothing, or the switch to the
\* next app; r is what the own start() of that app returns
step_latched_republish(s, r, ubtrap, ubval) ==
  IF HasFlag(s.apps[s.appix].flags, AOAPPS_MNGR_FLAGS_NEXTONERR) /\ ErrorTimeout(s)
  THEN switchnext(Call(s, "serial_next", s.appix), r, ubtrap, ubval)
  ELSE showstatus(s)

\* the step with an error in the latch that steps the app all the same
step_latched_stepapp(s, r, ubtrap, ubval) ==
  IF HasFlag(s.apps[s.appix].flags, AOAPPS_MNGR_FLAGS_NEXTONERR) /\ ErrorTimeout(s)
  THEN switchnext(Call(s, "serial_next", s.appix), r, ubtrap, ubval)
  ELSE app_step(s, r)

\* aoapps_mngr_step() with an error in the latch that never switches
step_latched_stay(s, r, ubtrap, ubval) == s

step_latched(s, r, ubtrap, ubval) ==
  IF HasFlag(s.apps[s.appix].flags, AOAPPS_MNGR_FLAGS_NEXTONERR) /\ ErrorTimeout(s)
  THEN switchnext(Call(s, "serial_next", s.appix), r, ubtrap, ubval)
  ELSE s

\* the step with an ok latch that steps the app itself, with or without WITHTOPO
step_app_nowrapper(s, done, r, clr, act) ==
  LET s1 == app_step(s, r)
      s2 == [s1 EXCEPT !.result = s1.ret]
      s3 == IF s2.result = aoresult_ok
               /\ HasFlag(s2.apps[s2.appix].flags, AOAPPS_MNGR_FLAGS_WITHREPAIR)
            THEN LET s2r == repair(s2, clr, act) IN [s2r EXCEPT !.result = s2r.ret]
            ELSE s2
  IN showstatus(s3)

\* the step with an ok latch that runs the repair before the step of the app
step_app_repairfirst(s, done, r, clr, act) ==
  LET s0 == IF HasFlag(s.apps[s.appix].flags, AOAPPS_MNGR_FLAGS_WITHREPAIR)
            THEN repair(s, clr, act) ELSE s
      s1 == IF HasFlag(s0.apps[s0.appix].flags, AOAPPS_MNGR_FLAGS_WITHTOPO)
            THEN stepwithtopo(s0, done, r)
            ELSE app_step(s0, r)
  IN showstatus([s1 EXCEPT !.result = IF s0.ret # aoresult_ok THEN s0.ret ELSE s1.ret])

\* the step with an ok latch that leaves the repair out for an app with
\* WITHTOPO unless the wrapper has stepped the app
step_app_repairanim(s, done, r, clr, act) ==
  LET s1 == IF HasFlag(s.apps[s.appix].flags, AOAPPS_MNGR_FLAGS_WITHTOPO)
            THEN stepwithtopo(s, done, r)
            ELSE app_step(s, r)
      s2 == [s1 EXCEPT !.result = s1.ret]
      s3 == IF s2.result = aoresult_ok
               /\ HasFlag(s2.apps[s2.appix].flags, AOAPPS_MNGR_FLAGS_WITHREPAIR)
               /\ \E k \in 1..Len(s2.calls) : s2.calls[k].fn = "app_step"
            THEN LET s2r == repair(s2, clr, act) IN [s2r EXCEPT !.result = s2r.ret]
            ELSE s2
  IN showstatus(s3)

\* aoapps_mngr_step() with an ok latch: the step of the app, the repair, the
\* status; done is what aomw_topo_build_done() returns, r what the one builder
\* or app function this step calls returns, clr and act what the two
\* broadcasts return
step_app(s, done, r, clr, act) ==
  LET s1 == IF HasFlag(s.apps[s.appix].flags, AOAPPS_MNGR_FLAGS_WITHTOPO)
            THEN stepwithtopo(s, done, r)
            ELSE app_step(s, r)
      s2 == [s1 EXCEPT !.result = s1.ret]
      s3 == IF s2.result = aoresult_ok
               /\ HasFlag(s2.apps[s2.appix].flags, AOAPPS_MNGR_FLAGS_WITHREPAIR)
            THEN LET s2r == repair(s2, clr, act) IN [s2r EXCEPT !.result = s2r.ret]
            ELSE s2
  IN showstatus(s3)

\* aoapps_mngr_step() that does not look at the latch
step_nolatch(s, done, r, clr, act, ubtrap, ubval) ==
  IF s.halted THEN s
  ELSE IF ~(s.moderun # 0) THEN AssertFail(s)
  ELSE step_app(s, done, r, clr, act)

\* aoapps_mngr_step() without the check of the run mode
step_norunassert(s, done, r, clr, act, ubtrap, ubval) ==
  IF s.halted THEN s
  ELSE IF s.result # aoresult_ok THEN step_latched(s, r, ubtrap, ubval)
  ELSE step_app(s, done, r, clr, act)

\* aoapps_mngr_step()
step(s, done, r, clr, act, ubtrap, ubval) ==
  IF s.halted THEN s
  ELSE IF ~(s.moderun # 0) THEN AssertFail(s)
  ELSE IF s.result # aoresult_ok THEN step_latched(s, r, ubtrap, ubval)
  ELSE step_app(s, done, r, clr, act)

\* ------------------------------------------------------- command handler
\* the mode, with the run mode looked at before the index
cmd_listone_mode_runfirst(s, appix) ==
  IF s.moderun # 0 THEN "run"
  ELSE IF appix # s.appix THEN "stop"
  ELSE "idle"

\* the mode aoapps_mngr_cmd_listone() prints for the app appix
cmd_listone_mode(s, appix) ==
  IF appix # s.appix THEN "stop"
  ELSE IF s.moderun # 0 THEN "run"
  ELSE "idle"

\* the flags aoapps_mngr_cmd_listone() prints for the app appix
cmd_listone_flags(s, appix) ==
  << IF HasFlag(s.apps[appix].flags, AOAPPS_MNGR_FLAGS_WITHTOPO) THEN "T" ELSE "t",
     IF HasFlag(s.apps[appix].flags, AOAPPS_MNGR_FLAGS_WITHREPAIR) THEN "R" ELSE "r",
     IF HasFlag(s.apps[appix].flags, AOAPPS_MNGR_FLAGS_NEXTONERR) THEN "E" ELSE "e" >>

\* aoapps_mngr_cmd_listone(): one line with the index, name, mode, flags and
\* display name
cmd_listone(s, appix) ==
  [s EXCEPT !.calls = Append(@, [fn |-> "serial_listone", ix |-> appix,
                                 name |-> s.apps[appix].name,
                                 mode |-> cmd_listone_mode(s, appix),
                                 flags |-> cmd_listone_flags(s, appix),
                                 oled |-> s.apps[appix].oled])]

\* the for loop of aoapps_mngr_cmd_listall(), from appix on
RECURSIVE cmd_listall_loop(_, _)
cmd_listall_loop(s, appix) ==
  IF appix < s.count THEN cmd_listall_loop(cmd_listone(s, appix), appix + 1)
  ELSE s

\* aoapps_mngr_cmd_listall()
cmd_listall(s, verbose) ==
  LET s1 == IF verbose THEN Call(s, "serial_header", -1) ELSE s
      s2 == cmd_listall_loop(s1, 0)
  IN IF verbose THEN Call(s2, "serial_legend", -1) ELSE s2

\* aoapps_mngr_cmd_config() with argc==2: the for loop from appix on
RECURSIVE cmd_config_list(_, _, _)
cmd_config_list(s, appix, count) ==
  IF appix < s.count
  THEN IF s.apps[appix].help # NULL
       THEN LET s1 == IF count = 0 THEN Call(s, "serial_configurable", -1) ELSE s
            IN cmd_config_list(Call(s1, "serial_name", appix), appix + 1, count + 1)
       ELSE cmd_config_list(s, appix + 1, count)
  ELSE IF count = 0 THEN Call(s, "serial_noneconfigurable", -1) ELSE s

\* aoapps_mngr_cmd_config() with argc==3: the for loop from appix on; match is
\* the set of indices whose name aocmd_cint_isprefix() finds argv[2] a prefix of
RECURSIVE cmd_config_help(_, _, _, _)
cmd_config_help(s, appix, count, match) ==
  IF appix < s.count
  THEN IF appix \in match
       THEN IF s.apps[appix].cmd = 0 THEN Call(s, "serial_notconfigurable", appix)
            ELSE IF ~(s.apps[appix].help # NULL) THEN AssertFail(s)
            ELSE cmd_config_help(Call(s, "serial_help", appix), appix + 1,
                                 count + 1, match)
       ELSE cmd_config_help(s, appix + 1, count, match)
  ELSE IF count = 0 THEN Call(s, "serial_nomatch", -1) ELSE s

\* the loop for argc>3 that goes on after an app that is not configurable
RECURSIVE cmd_config_call_goon(_, _, _, _)
cmd_config_call_goon(s, appix, count, match) ==
  IF appix < s.count
  THEN IF appix \in match
       THEN IF s.apps[appix].cmd = 0
            THEN cmd_config_call_goon(Call(s, "serial_notconfigurable", appix),
                                      appix + 1, count + 1, match)
            ELSE cmd_config_call_goon(Call(s, "app_cmd", appix), appix + 1,
                                      count + 1, match)
       ELSE cmd_config_call_goon(s, appix + 1, count, match)
  ELSE IF count = 0 THEN Call(s, "serial_nomatch", -1) ELSE s

\* aoapps_mngr_cmd_config() with argc>3: the for loop from appix on
RECURSIVE cmd_config_call(_, _, _, _)
cmd_config_call(s, appix, count, match) ==
  IF appix < s.count
  THEN IF appix \in match
       THEN IF s.apps[appix].cmd = 0 THEN Call(s, "serial_notconfigurable", appix)
            ELSE cmd_config_call(Call(s, "app_cmd", appix), appix + 1,
                                 count + 1, match)
       ELSE cmd_config_call(s, appix + 1, count, match)
  ELSE IF count = 0 THEN Call(s, "serial_nomatch", -1) ELSE s

\* aoapps_mngr_cmd_config()
cmd_config(s, argc, match) ==
  IF argc = 2 THEN cmd_config_list(s, 0, 0)
  ELSE IF argc = 3 THEN cmd_config_help(s, 0, 0, match)
  ELSE IF argc > 3 THEN cmd_config_call(s, 0, 0, match)
  ELSE s

\* the for loop of the "switch" command that looks for the app by name, from ix
\* on: the first index in match, or -1
RECURSIVE cmd_switch_find(_, _, _)
cmd_switch_find(s, ix, match) ==
  IF ix < s.count
  THEN IF ix \in match THEN ix ELSE cmd_switch_find(s, ix + 1, match)
  ELSE -1

\* aoapps_mngr_switch() as the "switch" command calls it
cmd_switch_to(s, appix, silent, app) ==
  LET s1 == switch(Call(s, "aoapps_mngr_switch", appix), appix, app)
  IN IF s1.halted \/ silent THEN s1 ELSE cmd_listone(s1, appix)

\* the "switch" command with a range check that lets the count through
cmd_switch_offbyone(s, argc, isnum, num, match, silent, app) ==
  IF argc # 3 THEN Call(s, "serial_appmissing", -1)
  ELSE IF isnum
  THEN IF num < 0 \/ num > s.count THEN Call(s, "serial_outofbounds", num)
       ELSE cmd_switch_to(s, num, silent, app)
  ELSE LET appix == cmd_switch_find(s, 0, match)
       IN IF appix = -1 THEN Call(s, "serial_noapp", -1)
          ELSE cmd_switch_to(s, appix, silent, app)

\* aoapps_mngr_cmd() for "apps switch ...": isnum and num are what
\* aocmd_cint_parse_dec() makes of argv[2], match the set of indices whose name
\* argv[2] is a prefix of, silent whether the command was given as "@apps"
cmd_switch(s, argc, isnum, num, match, silent, app) ==
  IF argc # 3 THEN Call(s, "serial_appmissing", -1)
  ELSE IF isnum
  THEN IF num < 0 \/ num >= s.count THEN Call(s, "serial_outofbounds", num)
       ELSE cmd_switch_to(s, num, silent, app)
  ELSE LET appix == cmd_switch_find(s, 0, match)
       IN IF appix = -1 THEN Call(s, "serial_noapp", -1)
          ELSE cmd_switch_to(s, appix, silent, app)

\* ----------------------------------------------------------------- actions
\* the clock values a behaviour starts at, and the steps the clock advances by
StartClocks == { U32(0) }
TickDeltas == {1, AOAPPS_MNGR_ERROR_MS}

\* the outcomes of a modulo by zero, when the call evaluates one
UBTraps == IF aoapps_mngr_count - 1 = 0 THEN BOOLEAN ELSE {FALSE}
UBVals == IF aoapps_mngr_count - 1 = 0 THEN {-1, 0} ELSE {0}

\* static storage before aoapps_mngr_init() runs
Boot ==
  [count |-> 0, apps |-> [i \in 0..(AOAPPS_MNGR_REGISTRATION_SLOTS - 1) |-> ZeroApp],
   appix |-> 0, moderun |-> 0, result |-> aoresult_ok, lastgrn |-> U32(0),
   lastrepair |-> U32(0), lasterror |-> U32(0), state |-> "TOPOBUILD",
   error |-> aoresult_ok, grn |-> FALSE, red |-> FALSE, halted |-> FALSE,
   modzero |-> FALSE, calls |-> <<>>, nstart |-> 0, startres |-> "none",
   ret |-> aoresult_ok]

\* the state after setup() has called aoapps_mngr_init()
Init ==
  /\ millis \in StartClocks
  /\ ticks = 0
  /\ npoll = 0
  /\ op = Ev("init", -1)
  /\ LET s == init(Boot)
     IN /\ aoapps_mngr_count = s.count
        /\ aoapps_mngr_apps = s.apps
        /\ aoapps_mngr_appix = s.appix
        /\ aoapps_mngr_moderun = s.moderun
        /\ aoapps_mngr_result = s.result
        /\ aoapps_mngr_lastgrn = s.lastgrn
        /\ aoapps_mngr_lastrepair = s.lastrepair
        /\ aoapps_mngr_lasterror = s.lasterror
        /\ aoapps_mngr_state = s.state
        /\ aoapps_mngr_error = s.error
        /\ led_grn = s.grn
        /\ led_red = s.red
        /\ halted = s.halted
        /\ modzero = s.modzero
        /\ calls = s.calls
        /\ nstart = s.nstart
        /\ startres = s.startres

\* time passes between two API calls
Tick(d) ==
  /\ ~halted
  /\ ticks < MaxTicks
  /\ millis' = Add32(millis, U32(d))
  /\ ticks' = ticks + 1
  /\ UNCHANGED << aoapps_mngr_count, aoapps_mngr_apps, aoapps_mngr_appix,
                  aoapps_mngr_moderun, aoapps_mngr_result, aoapps_mngr_lastgrn,
                  aoapps_mngr_lastrepair, aoapps_mngr_lasterror, aoapps_mngr_state,
                  aoapps_mngr_error, led_grn, led_red, halted, modzero, calls,
                  op, nstart, startres, npoll >>

aoapps_mngr_init ==
  /\ ~halted
  /\ LET s == init(St)
     IN Apply(s) /\ Returned(s, "init", -1)
  /\ UNCHANGED << millis, ticks >>

aoapps_mngr_register(d) ==
  /\ ~halted
  /\ LET s == register(St, d)
     IN Apply(s) /\ Returned(s, "register", -1)
  /\ UNCHANGED << millis, ticks >>

aoapps_mngr_start(appix, app) ==
  /\ ~halted
  /\ LET s == start(St, appix, app)
     IN Apply(s) /\ Returned(s, "start", appix)
  /\ UNCHANGED << millis, ticks >>

aoapps_mngr_step(done, r, clr, act, ubtrap, ubval) ==
  /\ ~halted
  /\ LET s == step(St, done, r, clr, act, ubtrap, ubval)
     IN Apply(s) /\ Returned(s, "step", -1)
  /\ UNCHANGED << millis, ticks >>

aoapps_mngr_stop ==
  /\ ~halted
  /\ LET s == stop(St)
     IN Apply(s) /\ Returned(s, "stop", -1)
  /\ UNCHANGED << millis, ticks >>

aoapps_mngr_switch(appix, app) ==
  /\ ~halted
  /\ LET s == switch(St, appix, app)
     IN Apply(s) /\ Returned(s, "switch", appix)
  /\ UNCHANGED << millis, ticks >>

aoapps_mngr_switchnext(app, ubtrap, ubval) ==
  /\ ~halted
  /\ LET s == switchnext(St, app, ubtrap, ubval)
     IN Apply(s) /\ Returned(s, "switchnext", -1)
  /\ UNCHANGED << millis, ticks >>

\* the indices the callers pass: the valid ones and one on either side
Indices == -1..aoapps_mngr_count

\* What the collaborators return.  A collaborator that the call cannot reach
\* (because of the flags of the app, the run mode or the latch) returns nothing,
\* so its input is fixed.
CurFlags == aoapps_mngr_apps[aoapps_mngr_appix].flags
Stepping == aoapps_mngr_moderun # 0 /\ aoapps_mngr_result = aoresult_ok
TopoDone ==
  IF Stepping /\ HasFlag(CurFlags, AOAPPS_MNGR_FLAGS_WITHTOPO) THEN BOOLEAN ELSE {TRUE}
TxResults ==
  IF Stepping /\ HasFlag(CurFlags, AOAPPS_MNGR_FLAGS_WITHREPAIR) THEN Results
  ELSE {aoresult_ok}
StepResults == IF aoapps_mngr_moderun # 0 THEN Results ELSE {aoresult_ok}
StartResults(appix) ==
  IF 0 <= appix /\ appix < aoapps_mngr_count
     /\ ~HasFlag(aoapps_mngr_apps[appix].flags, AOAPPS_MNGR_FLAGS_WITHTOPO)
     /\ aoapps_mngr_apps[appix].start # voidapp_fn
  THEN Results ELSE {aoresult_ok}

DoTick == \E d \in TickDeltas : Tick(d)

\* no app with the name nm is registered
Unregistered(nm) ==
  \A i \in 0..(aoapps_mngr_count - 1) : aoapps_mngr_apps[i].name # nm

\* an app registers itself once
DoRegister ==
  /\ \E d \in Descs : Unregistered(d.name) /\ aoapps_mngr_register(d)
  /\ UNCHANGED npoll

DoStart ==
  /\ \E appix \in Indices : \E app \in StartResults(appix) :
       aoapps_mngr_start(appix, app)
  /\ UNCHANGED npoll

DoStep ==
  /\ \E done \in TopoDone, r \in StepResults, clr \in TxResults, act \in TxResults,
        ubtrap \in UBTraps, ubval \in UBVals :
       aoapps_mngr_step(done, r, clr, act, ubtrap, ubval)
  /\ UNCHANGED npoll

DoStop == aoapps_mngr_stop /\ UNCHANGED npoll

DoSwitch ==
  /\ \E appix \in Indices : \E app \in StartResults(appix) :
       aoapps_mngr_switch(appix, app)
  /\ UNCHANGED npoll

DoSwitchNext ==
  /\ \E app \in Results, ubtrap \in UBTraps, ubval \in UBVals :
       aoapps_mngr_switchnext(app, ubtrap, ubval)
  /\ UNCHANGED npoll

Next ==
  \/ DoTick
  \/ DoRegister
  \/ DoStart
  \/ DoStep
  \/ DoStop
  \/ DoSwitch
  \/ DoSwitchNext

Spec == Init /\ [][Next]_vars

\* The registry specification: a sketch registers its apps one after the other
\* until the slots are used up (and once more), and the apps are started,
\* stopped and switched; no step is made and no time passes.
SketchApps ==
  << MkApp(<<"r", "1">>, AOAPPS_MNGR_FLAGS_NEXTONERR),
     MkApp(<<"r", "2">>, AOAPPS_MNGR_FLAGS_NONE),
     MkApp(<<"r", "3">>, AOAPPS_MNGR_FLAGS_WITHREPAIR),
     MkApp(<<"r", "4">>, AOAPPS_MNGR_FLAGS_NEXTONERR),
     MkApp(<<"r", "5">>, AOAPPS_MNGR_FLAGS_NONE),
     MkApp(<<"r", "6">>, AOAPPS_MNGR_FLAGS_WITHREPAIR),
     MkApp(<<"r", "7">>, AOAPPS_MNGR_FLAGS_NEXTONERR),
     MkApp(<<"r", "8">>, AOAPPS_MNGR_FLAGS_NONE) >>

\* the descriptor the sketch registers next
RegDescs == { SketchApps[aoapps_mngr_count] }

RegRegister ==
  /\ \E d \in RegDescs : aoapps_mngr_register(d)
  /\ UNCHANGED npoll

NextReg ==
  \/ RegRegister
  \/ DoStart
  \/ DoStop
  \/ DoSwitch
  \/ DoSwitchNext

SpecReg == Init /\ [][NextReg]_vars

\* The topo specification: the apps with WITHTOPO are registered, started,
\* stepped and stopped while time passes, and npoll counts the polls of the
\* wrapper that found the build not done since the last start.
TopoApps ==
  << MkApp(<<"t">>, AOAPPS_MNGR_FLAGS_WITHTOPO),
     MkApp(<<"a", "1">>, AOAPPS_MNGR_FLAGS_WITHTOPO + AOAPPS_MNGR_FLAGS_WITHREPAIR) >>

\* the sketch registers the apps one after the other
TopoRegister ==
  /\ aoapps_mngr_count <= Len(TopoApps)
  /\ aoapps_mngr_register(TopoApps[aoapps_mngr_count])
  /\ UNCHANGED npoll

TopoStart ==
  /\ \E appix \in Indices : \E app \in StartResults(appix) :
       aoapps_mngr_start(appix, app)
  /\ npoll' = IF halted' THEN npoll ELSE 0

TopoStep ==
  /\ \E done \in TopoDone, r \in StepResults, clr \in TxResults, act \in TxResults,
        ubtrap \in UBTraps, ubval \in UBVals :
       /\ done \/ npoll < MaxPolls
       /\ aoapps_mngr_step(done, r, clr, act, ubtrap, ubval)
  /\ npoll' = IF \E k \in 1..Len(calls') : calls'[k].fn = "topo_build_step"
              THEN npoll + 1
              ELSE IF \E k \in 1..Len(calls') : calls'[k].fn = "oled_state"
                   THEN 0 ELSE npoll

NextTopo ==
  \/ DoTick
  \/ TopoRegister
  \/ TopoStart
  \/ TopoStep
  \/ DoStop

SpecTopo == Init /\ [][NextTopo]_vars

\* The command specification: the sketch registers its apps one after the
\* other, the apps are started and stopped, aoapps_mngr_init() is called again,
\* and the "apps list" and "apps config" commands are given; no time passes.
CliApps ==
  << MkApp(<<"A">>, AOAPPS_MNGR_FLAGS_NONE),
     [MkApp(<<"B">>, AOAPPS_MNGR_FLAGS_WITHTOPO + AOAPPS_MNGR_FLAGS_WITHREPAIR)
        EXCEPT !.cmd = app_fn, !.help = <<"h">>],
     MkApp(<<"C">>, AOAPPS_MNGR_FLAGS_NEXTONERR) >>

\* the sketch registers the apps one after the other
CliRegister ==
  /\ aoapps_mngr_count <= Len(CliApps)
  /\ aoapps_mngr_register(CliApps[aoapps_mngr_count])
  /\ UNCHANGED npoll

\* setup() runs again
CliInit == aoapps_mngr_init /\ UNCHANGED npoll

\* "apps list" and "@apps list"
aoapps_mngr_cmd_list(verbose) ==
  /\ ~halted
  /\ LET s == cmd_listall(St, verbose)
     IN Apply(s) /\ Returned(s, "cmd_list", -1)
  /\ UNCHANGED << millis, ticks >>

\* "apps config", "apps config <app>" and "apps config <app> <arg>"
aoapps_mngr_cmd_config(argc, match) ==
  /\ ~halted
  /\ LET s == cmd_config(St, argc, match)
     IN Apply(s) /\ Returned(s, "cmd_config", argc)
  /\ UNCHANGED << millis, ticks >>

\* the sets of registered apps a name given on the command line can match
Matches == SUBSET (0..(aoapps_mngr_count - 1))

CliList == (\E verbose \in BOOLEAN : aoapps_mngr_cmd_list(verbose)) /\ UNCHANGED npoll

CliConfig ==
  /\ \E argc \in 2..4 : \E match \in (IF argc = 2 THEN {{}} ELSE Matches) :
       aoapps_mngr_cmd_config(argc, match)
  /\ UNCHANGED npoll

\* "apps switch <app>" with a number or a name, and with the argument missing
aoapps_mngr_cmd_switch(argc, isnum, num, match, silent, app) ==
  /\ ~halted
  /\ LET s == cmd_switch(St, argc, isnum, num, match, silent, app)
     IN Apply(s) /\ Returned(s, "cmd_switch", IF isnum THEN num ELSE -2)
  /\ UNCHANGED << millis, ticks >>

\* the app the "switch" command selects (-1 if none)
CliTarget(isnum, num, match) ==
  IF isnum THEN num ELSE cmd_switch_find(St, 0, match)

CliSwitch ==
  /\ \E argc \in 2..3, isnum \in BOOLEAN, silent \in BOOLEAN :
       \E num \in (IF argc = 3 /\ isnum THEN Indices ELSE {0}) :
         \E match \in (IF argc = 3 /\ ~isnum THEN Matches ELSE {{}}) :
           \E app \in (IF argc = 3 THEN StartResults(CliTarget(isnum, num, match))
                       ELSE {aoresult_ok}) :
             aoapps_mngr_cmd_switch(argc, isnum, num, match, silent, app)
  /\ UNCHANGED npoll

NextCli ==
  \/ CliRegister
  \/ CliSwitch
  \/ CliInit
  \/ DoStart
  \/ DoStop
  \/ CliList
  \/ CliConfig

SpecCli == Init /\ [][NextCli]_vars

\* The descriptor specification: as the command specification, and register is
\* also called with descriptors that break one of its preconditions.
GoodApp == CliApps[2]
Malformed ==
  { [GoodApp EXCEPT !.name = NULL], [GoodApp EXCEPT !.name = <<>>],
    [GoodApp EXCEPT !.name = <<"a", "-">>], [GoodApp EXCEPT !.oled = NULL],
    [GoodApp EXCEPT !.xlbl = NULL], [GoodApp EXCEPT !.ylbl = NULL],
    [GoodApp EXCEPT !.start = 0], [GoodApp EXCEPT !.step = 0],
    [GoodApp EXCEPT !.stop = 0],
    [GoodApp EXCEPT !.flags = AOAPPS_MNGR_FLAGS_ALL + 1],
    [GoodApp EXCEPT !.flags = -1],
    [GoodApp EXCEPT !.cmd = 0], [GoodApp EXCEPT !.help = NULL] }

DescRegister ==
  /\ aoapps_mngr_count <= Len(CliApps)
  /\ \E d \in Malformed : aoapps_mngr_register(d)
  /\ UNCHANGED npoll

NextDesc ==
  \/ CliRegister
  \/ DescRegister
  \/ CliInit
  \/ DoStart
  \/ DoStop
  \/ CliList
  \/ CliConfig

SpecDesc == Init /\ [][NextDesc]_vars

\* The time specification: the clock advances by 1 ms and by the repair period
\* (twice the period is the heartbeat period), while an app with WITHREPAIR is
\* registered and this app and the void app are started, stepped and stopped.
TimeDeltas == {1, AOAPPS_MNGR_REPAIR_MS}

TimeApps == << MkApp(<<"p">>, AOAPPS_MNGR_FLAGS_WITHREPAIR) >>

\* time passes between two API calls
TimeTick ==
  /\ ~halted
  /\ ticks < MaxTimeTicks
  /\ \E d \in TimeDeltas : millis' = Add32(millis, U32(d))
  /\ ticks' = ticks + 1
  /\ UNCHANGED << aoapps_mngr_count, aoapps_mngr_apps, aoapps_mngr_appix,
                  aoapps_mngr_moderun, aoapps_mngr_result, aoapps_mngr_lastgrn,
                  aoapps_mngr_lastrepair, aoapps_mngr_lasterror, aoapps_mngr_state,
                  aoapps_mngr_error, led_grn, led_red, halted, modzero, calls,
                  op, nstart, startres, npoll >>

\* the sketch registers the apps one after the other
TimeRegister ==
  /\ aoapps_mngr_count <= Len(TimeApps)
  /\ aoapps_mngr_register(TimeApps[aoapps_mngr_count])
  /\ UNCHANGED npoll

NextTime ==
  \/ TimeTick
  \/ TimeRegister
  \/ DoStart
  \/ DoStep
  \/ DoStop

SpecTime == Init /\ [][NextTime]_vars

\* The liveness specification: loop() calls aoapps_mngr_step() again and again
\* while an app is running, and the clock goes on (in steps longer than the
\* error timeout, MaxLiveTicks times); an app with NEXTONERR and an app with
\* WITHTOPO are registered, started and stopped with the preconditions met, so
\* that no call stops the program.
LiveApps ==
  << MkApp(<<"e">>, AOAPPS_MNGR_FLAGS_NEXTONERR),
     MkApp(<<"t">>, AOAPPS_MNGR_FLAGS_WITHTOPO + AOAPPS_MNGR_FLAGS_WITHREPAIR) >>

LiveTick ==
  /\ ~halted
  /\ ticks < MaxLiveTicks
  /\ millis' = Add32(millis, U32(AOAPPS_MNGR_ERROR_MS + 1))
  /\ ticks' = ticks + 1
  /\ UNCHANGED << aoapps_mngr_count, aoapps_mngr_apps, aoapps_mngr_appix,
                  aoapps_mngr_moderun, aoapps_mngr_result, aoapps_mngr_lastgrn,
                  aoapps_mngr_lastrepair, aoapps_mngr_lasterror, aoapps_mngr_state,
                  aoapps_mngr_error, led_grn, led_red, halted, modzero, calls,
                  op, nstart, startres, npoll >>

LiveRegister ==
  /\ aoapps_mngr_count <= Len(LiveApps)
  /\ aoapps_mngr_register(LiveApps[aoapps_mngr_count])
  /\ UNCHANGED npoll

LiveStart ==
  /\ aoapps_mngr_moderun = 0
  /\ \E appix \in 0..(aoapps_mngr_count - 1) : \E app \in StartResults(appix) :
       aoapps_mngr_start(appix, app)
  /\ npoll' = 0

\* loop() calls aoapps_mngr_step(); with the preconditions met the call returns
LiveStep ==
  /\ aoapps_mngr_moderun # 0
  /\ op' = Ev("step", -1)
  /\ TopoStep

LiveStop == aoapps_mngr_moderun # 0 /\ DoStop

NextLive ==
  \/ LiveTick
  \/ LiveRegister
  \/ LiveStart
  \/ LiveStep
  \/ LiveStop

\* the variables after aoapps_mngr_step() has returned in LiveStep with state s
LiveStepVars(s) ==
  << s.count, s.apps, s.appix, s.moderun, s.result, s.lastgrn, s.lastrepair,
     s.lasterror, s.state, s.error, millis, s.grn, s.red, s.halted, s.modzero,
     s.calls, Ev("step", -1), s.nstart, s.startres, ticks,
     IF \E k \in 1..Len(s.calls) : s.calls[k].fn = "topo_build_step"
     THEN npoll + 1
     ELSE IF \E k \in 1..Len(s.calls) : s.calls[k].fn = "oled_state"
          THEN 0 ELSE npoll >>

\* ENABLED <<LiveStep>>_vars, written out: a call of aoapps_mngr_step() that
\* returns can change the state
LiveStepChanges ==
  /\ aoapps_mngr_moderun # 0
  /\ ~halted
  /\ \E done \in TopoDone, r \in StepResults, clr \in TxResults, act \in TxResults,
        ubtrap \in UBTraps, ubval \in UBVals :
       /\ done \/ npoll < MaxPolls
       /\ LET s == step(St, done, r, clr, act, ubtrap, ubval)
          IN (~s.halted \/ op = Ev("step", -1)) /\ LiveStepVars(s) # vars

\* loop() never ends: weak fairness of LiveStep, WF_vars(LiveStep) with its
\* ENABLED written out as LiveStepChanges
LiveStepFair == []<>(~LiveStepChanges) \/ []<><<LiveStep>>_vars

SpecLive ==
  Init /\ [][NextLive]_vars /\ LiveStepFair /\ WF_vars(LiveTick)

\* The wrap specification: aoapps_mngr_init() is called 251 ms before the
\* clock of millis() wraps from 2^32-1 to 0; an app with WITHREPAIR and
\* NEXTONERR is registered, started, stepped and stopped while the clock goes on
\* over the wrap.
WrapClock == << H16 - 1, H16 - (AOAPPS_MNGR_REPAIR_MS + 1) >>
WrapDeltas == {1, AOAPPS_MNGR_REPAIR_MS, AOAPPS_MNGR_ERROR_MS}
WrapApps ==
  << MkApp(<<"w">>, AOAPPS_MNGR_FLAGS_WITHREPAIR + AOAPPS_MNGR_FLAGS_NEXTONERR) >>

InitWrap ==
  /\ millis = WrapClock
  /\ ticks = 0
  /\ npoll = 0
  /\ op = Ev("init", -1)
  /\ LET s == init(Boot)
     IN /\ aoapps_mngr_count = s.count
        /\ aoapps_mngr_apps = s.apps
        /\ aoapps_mngr_appix = s.appix
        /\ aoapps_mngr_moderun = s.moderun
        /\ aoapps_mngr_result = s.result
        /\ aoapps_mngr_lastgrn = s.lastgrn
        /\ aoapps_mngr_lastrepair = s.lastrepair
        /\ aoapps_mngr_lasterror = s.lasterror
        /\ aoapps_mngr_state = s.state
        /\ aoapps_mngr_error = s.error
        /\ led_grn = s.grn
        /\ led_red = s.red
        /\ halted = s.halted
        /\ modzero = s.modzero
        /\ calls = s.calls
        /\ nstart = s.nstart
        /\ startres = s.startres

\* time passes between two API calls
WrapTick ==
  /\ ~halted
  /\ ticks < MaxWrapTicks
  /\ \E d \in WrapDeltas : millis' = Add32(millis, U32(d))
  /\ ticks' = ticks + 1
  /\ UNCHANGED << aoapps_mngr_count, aoapps_mngr_apps, aoapps_mngr_appix,
                  aoapps_mngr_moderun, aoapps_mngr_result, aoapps_mngr_lastgrn,
                  aoapps_mngr_lastrepair, aoapps_mngr_lasterror, aoapps_mngr_state,
                  aoapps_mngr_error, led_grn, led_red, halted, modzero, calls,
                  op, nstart, startres, npoll >>

\* the sketch registers the app
WrapRegister ==
  /\ aoapps_mngr_count <= Len(WrapApps)
  /\ aoapps_mngr_register(WrapApps[aoapps_mngr_count])
  /\ UNCHANGED npoll

NextWrap ==
  \/ WrapTick
  \/ WrapRegister
  \/ DoStart
  \/ DoStep
  \/ DoStop

SpecWrap == InitWrap /\ [][NextWrap]_vars

\* ------------------------------------------------------------------ claims
\* the collaborator fn is among the calls c
HasCall(c, fn) == \E k \in 1..Len(c) : c[k].fn = fn
\* the number of calls of fn among the calls c
NumCalls(c, fn) == Cardinality({k \in 1..Len(c) : c[k].fn = fn})
\* the work aoapps_mngr_start() does for the app it starts
\* the transition is a call of fn that returned, or a call that halted
Did(fn) == halted' \/ op'.fn = fn
StartWork == {"oled_state", "led_off_grn_red", "led_on_grn", "topo_build_start", "app_start"}
Running == aoapps_mngr_moderun # 0
LatchOk == aoapps_mngr_result = aoresult_ok
CurNextOnErr == HasFlag(CurFlags, AOAPPS_MNGR_FLAGS_NEXTONERR)

\* C1: in every reachable state the index of the current app is a registered
\* slot, 0 <= aoapps_mngr_appix < aoapps_mngr_count, also after a step that
\* switched to the next app by itself.
C1_IndexInRange ==
  0 <= aoapps_mngr_appix /\ aoapps_mngr_appix < aoapps_mngr_count

\* a step has switched to the next app by itself, and the new app is running
C1_Witness ==
  /\ ~halted
  /\ op = Ev("step", -1)
  /\ HasCall(calls, "serial_next")
  /\ Running
  /\ aoapps_mngr_count = Cardinality(Descs) + 1

\* C3: a switch called while an app runs calls the stop() of that app exactly
\* once, whatever the latch holds, and before anything is done to start the
\* app it switches to.
C3_StopBeforeStart ==
  [][ (millis' = millis /\ Running /\ Did("switch") /\ DoSwitch) =>
        /\ Len(calls') >= 1
        /\ calls'[1] = Ev("app_stop", aoapps_mngr_appix)
        /\ NumCalls(calls', "app_stop") = 1
        /\ \A k \in 1..Len(calls') : calls'[k].fn \in StartWork => k > 1 ]_vars

\* a switch has stopped one app and started another one
C3_Witness ==
  /\ ~halted
  /\ op.fn = "switch"
  /\ Len(calls) >= 2
  /\ calls[1].fn = "app_stop"
  /\ calls[1].ix # aoapps_mngr_appix
  /\ HasCall(calls, "app_start")

\* C4: while an app runs with a latched error and without NEXTONERR, a step
\* calls no collaborator at all and changes nothing of the manager, at any time.
C4_StepIsNoop ==
  [][ (millis' = millis /\ Running /\ ~LatchOk /\ ~CurNextOnErr /\ Did("step")
        /\ DoStep) =>
        /\ calls' = <<>>
        /\ ~halted'
        /\ UNCHANGED << aoapps_mngr_count, aoapps_mngr_apps, aoapps_mngr_appix,
                        aoapps_mngr_moderun, aoapps_mngr_result,
                        aoapps_mngr_lastgrn, aoapps_mngr_lastrepair,
                        aoapps_mngr_lasterror, aoapps_mngr_state,
                        aoapps_mngr_error, led_grn, led_red >> ]_vars

\* such a step has been made, later than the timeout after the error
C4_Witness ==
  /\ ~halted
  /\ op = Ev("step", -1)
  /\ calls = <<>>
  /\ Running /\ ~LatchOk /\ ~CurNextOnErr
  /\ Gt32(Sub32(millis, aoapps_mngr_lasterror), U32(AOAPPS_MNGR_ERROR_MS))

\* a <= b does not hold the other way round
Ge32(a, b) == ~Gt32(b, a)
\* the transition is an API call (the clock stands still during a call)
ApiCall == millis' = millis
\* the step with r as what the one builder or app function it calls returns
StepWith(r) ==
  /\ Did("step")
  /\ \E done \in TopoDone, clr \in TxResults, act \in TxResults,
        ubtrap \in UBTraps, ubval \in UBVals :
       aoapps_mngr_step(done, r, clr, act, ubtrap, ubval)
\* the transition is a step that switches to the next app by itself
AutoSwitch ==
  /\ ApiCall /\ Running /\ ~LatchOk
  /\ HasCall(calls', "serial_next")
  /\ Did("step")
  /\ DoStep

\* C2: a register call that returns increases aoapps_mngr_count by one, stores
\* the descriptor in the slot the count pointed at and leaves the other slots
\* alone; the count never exceeds the 8 slots.
C2_RegisterAppends ==
  /\ [](aoapps_mngr_count <= AOAPPS_MNGR_REGISTRATION_SLOTS)
  /\ [][ \A d \in RegDescs :
           (aoapps_mngr_register(d) /\ ~halted') =>
             /\ aoapps_mngr_count' = aoapps_mngr_count + 1
             /\ aoapps_mngr_apps'[aoapps_mngr_count] = d
             /\ \A i \in 0..(AOAPPS_MNGR_REGISTRATION_SLOTS - 1) :
                  i # aoapps_mngr_count => aoapps_mngr_apps'[i] = aoapps_mngr_apps[i]
       ]_vars

\* the last slot has been filled by a register call
C2_Witness ==
  /\ ~halted
  /\ op = Ev("register", -1)
  /\ aoapps_mngr_count = AOAPPS_MNGR_REGISTRATION_SLOTS
  /\ aoapps_mngr_apps[AOAPPS_MNGR_REGISTRATION_SLOTS - 1]
       = SketchApps[AOAPPS_MNGR_REGISTRATION_SLOTS - 1]
  /\ aoapps_mngr_apps[0] = VoidApp

\* C5: a non-ok result of the app's own step() is in the latch when the step
\* returns; while the latch is non-ok no call invokes the app's own step(), and
\* the latch keeps its value until a start.
C5_FirstErrorLatched ==
  /\ [][ \A r \in Results \ {aoresult_ok} :
           ( /\ ApiCall /\ Running /\ LatchOk
             /\ HasCall(calls', "app_step")
             /\ aoapps_mngr_apps[aoapps_mngr_appix].step # voidapp_fn
             /\ StepWith(r) )
           => aoapps_mngr_result' = r ]_vars
  /\ [][ (ApiCall /\ ~LatchOk) => ~HasCall(calls', "app_step") ]_vars
  /\ [][ (~LatchOk /\ aoapps_mngr_result' # aoapps_mngr_result)
           => HasCall(calls', "oled_state") ]_vars

\* an error of the app's own step(), latched later than the start, and a step
\* that did nothing after it
C5_Witness ==
  /\ ~halted
  /\ op = Ev("step", -1)
  /\ calls = <<>>
  /\ Running /\ aoapps_mngr_result = "E2"
  /\ nstart = 1
  /\ Gt32(aoapps_mngr_lasterror, aoapps_mngr_lastgrn)

\* the time since the error was shown
SinceError == Sub32(millis, aoapps_mngr_lasterror)
\* the latch takes an error in this call
Latches ==
  /\ ApiCall
  /\ aoapps_mngr_result' # aoresult_ok
  /\ (LatchOk \/ HasCall(calls', "oled_state"))

\* C6 as stated: with an error in the latch and NEXTONERR, a step switches to
\* the next app if and only if at least 10000 ms have passed since the error
\* was latched.
C6_AtLeastTimeout ==
  [][ (ApiCall /\ Running /\ ~LatchOk /\ CurNextOnErr /\ Did("step") /\ DoStep) =>
        (HasCall(calls', "app_stop") <=> Ge32(SinceError, U32(AOAPPS_MNGR_ERROR_MS)))
    ]_vars

\* C6 amended: with an error in the latch and NEXTONERR, a step switches to the
\* next app if and only if more than 10000 ms have passed since the error was
\* latched; that time is taken when the latch takes the error and by no other
\* call.
C6_MoreThanTimeout ==
  /\ [][ (ApiCall /\ Running /\ ~LatchOk /\ CurNextOnErr /\ Did("step") /\ DoStep) =>
           (HasCall(calls', "app_stop") <=> Gt32(SinceError, U32(AOAPPS_MNGR_ERROR_MS)))
       ]_vars
  /\ [][ Latches => aoapps_mngr_lasterror' = millis ]_vars
  /\ [][ ~Latches => aoapps_mngr_lasterror' = aoapps_mngr_lasterror ]_vars

\* a step made exactly 10000 ms after the error has not switched
C6_Witness ==
  /\ ~halted
  /\ op = Ev("step", -1)
  /\ calls = <<>>
  /\ Running /\ ~LatchOk /\ CurNextOnErr
  /\ SinceError = U32(AOAPPS_MNGR_ERROR_MS)

\* the index the switch to the next app makes current
NextIndex == (aoapps_mngr_appix % (aoapps_mngr_count - 1)) + 1

\* C7 as stated: after a step that switched to the next app by itself, that app
\* is running and the latch is ok.
C7_LatchOkAfterSwitch ==
  [][ AutoSwitch =>
        /\ aoapps_mngr_count >= 2
        /\ aoapps_mngr_moderun' # 0
        /\ aoapps_mngr_appix' = NextIndex
        /\ aoapps_mngr_result' = aoresult_ok ]_vars

\* C7 amended: after a step that switched to the next app by itself, that app
\* is running and the latch holds the result of its start: ok for an app with
\* WITHTOPO, else what the app's own start() returned.
C7_LatchIsStartResult ==
  [][ AutoSwitch =>
        /\ aoapps_mngr_count >= 2
        /\ aoapps_mngr_moderun' # 0
        /\ aoapps_mngr_appix' = NextIndex
        /\ ~halted'
        /\ IF HasFlag(aoapps_mngr_apps[NextIndex].flags, AOAPPS_MNGR_FLAGS_WITHTOPO)
           THEN aoapps_mngr_result' = aoresult_ok
           ELSE \A r \in Results :
                  StepWith(r) =>
                    aoapps_mngr_result' = FnResult(aoapps_mngr_apps[NextIndex].start, r)
    ]_vars

\* a step has switched to the next app, whose own start() failed
C7_Witness ==
  /\ ~halted
  /\ op = Ev("step", -1)
  /\ HasCall(calls, "serial_next")
  /\ HasCall(calls, "app_start")
  /\ Running /\ ~LatchOk

\* the transition is a call of the switch to the next app
SwitchesNext ==
  /\ ApiCall
  /\ Did("switchnext")
  /\ DoSwitchNext

\* C8: with two or more apps registered, a switch to the next app makes one of
\* the indices 1..count-1 current; index 0 becomes current only by a start or a
\* switch called with 0.
C8_NeverVoid ==
  /\ [][ (aoapps_mngr_count >= 2 /\ SwitchesNext /\ ~halted')
           => aoapps_mngr_appix' \in 1..(aoapps_mngr_count - 1) ]_vars
  /\ [][ (aoapps_mngr_appix' = 0 /\ aoapps_mngr_appix # 0)
           => op' \in {Ev("start", 0), Ev("switch", 0)} ]_vars

\* a switch to the next app has wrapped around from the last app to app 1
C8_Witness ==
  /\ ~halted
  /\ op = Ev("switchnext", -1)
  /\ aoapps_mngr_count >= 3
  /\ Len(calls) >= 1
  /\ calls[1] = Ev("app_stop", aoapps_mngr_count - 1)
  /\ aoapps_mngr_appix = 1

\* the indices made current by n switches to the next app, from index i
RECURSIVE NextTrail(_, _, _)
NextTrail(i, count, n) ==
  IF n = 0 THEN <<>>
  ELSE LET j == switchnext_ix(i, count) IN <<j>> \o NextTrail(j, count, n - 1)

\* C9: a switch to the next app goes from i in 1..count-2 to i+1 and from
\* count-1 and from 0 to 1, and leaves the count alone; so count-1 switches in
\* a row, from an app other than the void app, make each of 1..count-1
\* current once and end at the app they began at.
C9_Cycle ==
  /\ [][ (ApiCall /\ Running /\ aoapps_mngr_count >= 2 /\ Did("switchnext")
          /\ DoSwitchNext) =>
           /\ ~halted'
           /\ aoapps_mngr_count' = aoapps_mngr_count
           /\ aoapps_mngr_appix' =
                IF aoapps_mngr_appix \in 1..(aoapps_mngr_count - 2)
                THEN aoapps_mngr_appix + 1 ELSE 1 ]_vars
  /\ [](aoapps_mngr_count >= 2 =>
          \A i \in 1..(aoapps_mngr_count - 1) :
            LET trail == NextTrail(i, aoapps_mngr_count, aoapps_mngr_count - 1)
            IN /\ trail[aoapps_mngr_count - 1] = i
               /\ {trail[k] : k \in 1..(aoapps_mngr_count - 1)}
                    = 1..(aoapps_mngr_count - 1))

\* with all slots used, a switch to the next app has gone from an app to the
\* app after it
C9_Witness ==
  /\ ~halted
  /\ op = Ev("switchnext", -1)
  /\ aoapps_mngr_count = AOAPPS_MNGR_REGISTRATION_SLOTS
  /\ aoapps_mngr_appix >= 2
  /\ Len(calls) >= 1
  /\ calls[1] = Ev("app_stop", aoapps_mngr_appix - 1)

\* C10: no call evaluates the modulo of the wrap formula with count-1 = 0.
C10_ModuloGuarded == ~modzero

\* ------------------------------------------------- claims of the wrapper
CurWithTopo == HasFlag(CurFlags, AOAPPS_MNGR_FLAGS_WITHTOPO)
\* the transition is a step in which aomw_topo_build_done() returns done
StepDone(done) ==
  /\ Did("step")
  /\ \E r \in StepResults, clr \in TxResults, act \in TxResults,
        ubtrap \in UBTraps, ubval \in UBVals :
       aoapps_mngr_step(done, r, clr, act, ubtrap, ubval)
\* the transition starts at a running app with WITHTOPO and an ok latch, and
\* is a step if it is a call of the manager at all
TopoPoll == ApiCall /\ Running /\ LatchOk /\ CurWithTopo /\ Did("step")
\* the transition is a start that returns and makes an app with WITHTOPO current
StartsWithTopo ==
  /\ ApiCall /\ ~halted' /\ op'.fn = "start"
  /\ HasFlag(aoapps_mngr_apps[aoapps_mngr_appix'].flags, AOAPPS_MNGR_FLAGS_WITHTOPO)
  /\ TopoStart

\* C11: in one activation of an app with WITHTOPO the app's own start() is
\* called at most once; the start call of the manager does not call it, and a
\* step calls it only after aomw_topo_build_done() has returned true.
C11_StartOnceAfterBuild ==
  /\ [](CurWithTopo => nstart <= 1)
  /\ [][ /\ StartsWithTopo => (~HasCall(calls', "app_start") /\ nstart' = 0)
         /\ (TopoPoll /\ HasCall(calls', "app_start") /\ TopoStep)
            => (/\ calls'[1].fn = "topo_build_done"
                /\ ~StepDone(FALSE)
                /\ NumCalls(calls', "app_start") = 1
                /\ nstart = 0) ]_vars

\* the app's own start() has been called once, after polls that found the
\* build not done, and the app has been stepped after it
C11_Witness ==
  /\ ~halted
  /\ op = Ev("step", -1)
  /\ CurWithTopo /\ Running
  /\ nstart = 1
  /\ npoll >= 2
  /\ HasCall(calls, "app_step")

\* the transition is a step in which aomw_topo_build_done() returns done and
\* every collaborator that is called returns ok
StepOk(done) ==
  /\ Did("step")
  /\ \E ubtrap \in UBTraps, ubval \in UBVals :
       aoapps_mngr_step(done, aoresult_ok, aoresult_ok, aoresult_ok, ubtrap, ubval)

\* C12: with all results ok, the start of an app with WITHTOPO enters TOPOBUILD;
\* a step in TOPOBUILD that finds the build not done calls
\* aomw_topo_build_step() once and stays in TOPOBUILD; the step that finds the
\* build done calls the app's own start() once, not its step(), and enters
\* APPANIM; every step in APPANIM calls the app's own step() exactly once.
C12_BuildThenAnimate ==
  [][ /\ StartsWithTopo
         => (aoapps_mngr_state' = "TOPOBUILD" /\ aoapps_mngr_result' = aoresult_ok
             /\ npoll' = 0)
      /\ (TopoPoll /\ aoapps_mngr_state = "TOPOBUILD" /\ StepOk(FALSE))
         => (/\ aoapps_mngr_state' = "TOPOBUILD"
             /\ aoapps_mngr_result' = aoresult_ok
             /\ NumCalls(calls', "topo_build_step") = 1
             /\ ~HasCall(calls', "app_start")
             /\ ~HasCall(calls', "app_step")
             /\ npoll' = npoll + 1)
      /\ (TopoPoll /\ aoapps_mngr_state = "TOPOBUILD" /\ StepOk(TRUE))
         => (/\ aoapps_mngr_state' = "APPANIM"
             /\ aoapps_mngr_result' = aoresult_ok
             /\ NumCalls(calls', "app_start") = 1
             /\ ~HasCall(calls', "topo_build_step")
             /\ ~HasCall(calls', "app_step"))
      /\ (TopoPoll /\ aoapps_mngr_state = "APPANIM" /\ (StepOk(TRUE) \/ StepOk(FALSE)))
         => (/\ aoapps_mngr_state' = "APPANIM"
             /\ aoapps_mngr_result' = aoresult_ok
             /\ NumCalls(calls', "app_step") = 1
             /\ \E k \in 1..Len(calls') : calls'[k] = Ev("app_step", aoapps_mngr_appix)
             /\ ~HasCall(calls', "app_start")
             /\ ~HasCall(calls', "topo_build_step")) ]_vars

\* after the greatest number of polls that found the build not done, the app
\* has been started by the wrapper and then stepped, with an ok latch
C12_Witness ==
  /\ ~halted
  /\ op = Ev("step", -1)
  /\ CurWithTopo /\ Running /\ LatchOk
  /\ aoapps_mngr_state = "APPANIM"
  /\ npoll = MaxPolls
  /\ nstart = 1
  /\ HasCall(calls, "app_step")
  /\ HasCall(calls, "send_goactive")

\* the transition is a step in which the build is not done and
\* aomw_topo_build_step() returns r
BuildStep(r) ==
  /\ Did("step")
  /\ \E clr \in TxResults, act \in TxResults, ubtrap \in UBTraps, ubval \in UBVals :
       aoapps_mngr_step(FALSE, r, clr, act, ubtrap, ubval)

\* C13: a build step that fails, on the first poll after the start as on a
\* later one, takes the wrapper from TOPOBUILD to ERROR; no app function has
\* been called before it in the activation, and no step calls the app's own
\* start() or step() while the wrapper is in ERROR.
C13_BuildFailure ==
  /\ []((CurWithTopo /\ aoapps_mngr_state = "TOPOBUILD") => nstart = 0)
  /\ [][ /\ \A r \in Results \ {aoresult_ok} :
              (TopoPoll /\ aoapps_mngr_state = "TOPOBUILD" /\ BuildStep(r))
              => (/\ aoapps_mngr_state' = "ERROR"
                  /\ aoapps_mngr_error' = r
                  /\ ~HasCall(calls', "app_start")
                  /\ ~HasCall(calls', "app_step")
                  /\ nstart' = 0)
         /\ (ApiCall /\ Running /\ CurWithTopo /\ aoapps_mngr_state = "ERROR"
             /\ Did("step") /\ TopoStep)
            => (/\ aoapps_mngr_state' = "ERROR"
                /\ ~HasCall(calls', "app_start")
                /\ ~HasCall(calls', "app_step")
                /\ ~HasCall(calls', "topo_build_step")
                /\ nstart' = nstart) ]_vars

\* the build has failed on the first poll, the error has been latched, a
\* further step has been made, and the app has not been started
C13_Witness ==
  /\ ~halted
  /\ op = Ev("step", -1)
  /\ CurWithTopo /\ Running /\ ~LatchOk
  /\ aoapps_mngr_state = "ERROR"
  /\ aoapps_mngr_result = aoapps_mngr_error
  /\ npoll = 1
  /\ nstart = 0
  /\ calls = <<>>

\* C14: in TOPOBUILD, in a step that finds the build not done, the latch takes
\* the result aomw_topo_build_step() returned in that step; an error of the
\* build step is in the latch when that step returns.
C14_BuildResultLatched ==
  [][ \A r \in Results \ {aoresult_ok} :
        (TopoPoll /\ aoapps_mngr_state = "TOPOBUILD" /\ BuildStep(r))
        => aoapps_mngr_result' = r ]_vars

\* the transition is a step in which the build is done and the app's own
\* start() returns r
StartStep(r) ==
  /\ Did("step")
  /\ \E clr \in TxResults, act \in TxResults, ubtrap \in UBTraps, ubval \in UBVals :
       aoapps_mngr_step(TRUE, r, clr, act, ubtrap, ubval)

\* C15: when the step that finds the build done calls the app's own start()
\* and that returns an error, the error is the result of the step and the
\* wrapper is in ERROR when the step returns.
C15_StartFailureToError ==
  [][ \A r \in Results \ {aoresult_ok} :
        (TopoPoll /\ aoapps_mngr_state = "TOPOBUILD" /\ StartStep(r))
        => (aoapps_mngr_result' = r /\ aoapps_mngr_state' = "ERROR") ]_vars

\* the functions of the builder and of the apps
WorkCalls == {"topo_build_done", "topo_build_step", "topo_numtriplets",
              "app_start", "app_step"}

\* C16: in ERROR a poll of the wrapper returns the error the wrapper holds and
\* calls neither the builder nor a function of the app; the wrapper stays in
\* ERROR with the same error until a start of an app with WITHTOPO takes it to
\* TOPOBUILD.
C16_ErrorAbsorbing ==
  /\ [](aoapps_mngr_state = "ERROR" => aoapps_mngr_error # aoresult_ok)
  /\ [][ /\ (TopoPoll /\ aoapps_mngr_state = "ERROR" /\ DoStep)
            => (/\ aoapps_mngr_result' = aoapps_mngr_error
                /\ aoapps_mngr_state' = "ERROR"
                /\ \A k \in 1..Len(calls') : calls'[k].fn \notin WorkCalls)
         /\ (aoapps_mngr_state = "ERROR" /\ aoapps_mngr_state' = "ERROR")
            => aoapps_mngr_error' = aoapps_mngr_error
         /\ (aoapps_mngr_state = "ERROR" /\ aoapps_mngr_state' # "ERROR")
            => (/\ aoapps_mngr_state' = "TOPOBUILD"
                /\ HasCall(calls', "topo_build_start")
                /\ HasCall(calls', "oled_state")
                /\ HasFlag(aoapps_mngr_apps[aoapps_mngr_appix'].flags,
                           AOAPPS_MNGR_FLAGS_WITHTOPO)) ]_vars

\* the wrapper has been polled in ERROR, after a build step that failed, and
\* the error it holds has been latched
C16_Witness ==
  /\ ~halted
  /\ op = Ev("step", -1)
  /\ CurWithTopo /\ Running
  /\ aoapps_mngr_state = "ERROR"
  /\ aoapps_mngr_result = aoapps_mngr_error
  /\ nstart = 0
  /\ HasCall(calls, "serial_error")
  /\ ~HasCall(calls, "topo_build_step")

\* the transition is a call of fn that returned
Ret(fn) == ApiCall /\ ~halted' /\ op'.fn = fn

\* C17: a start with a registered index, called while stopped, makes that index
\* current and the manager running; for an app with WITHTOPO it calls
\* aomw_topo_build_start() once, puts the wrapper in TOPOBUILD and the latch to
\* ok, for another app it calls the app's own start() once and puts its result
\* in the latch; whatever the latch and the wrapper held before.
C17_StartWhileStopped ==
  /\ []((~halted /\ ~Running) =>
          \A appix \in 0..(aoapps_mngr_count - 1) : \A app \in Results :
            ~start(St, appix, app).halted)
  /\ [][ \A appix \in 0..(aoapps_mngr_count - 1) : \A app \in Results :
        (Ret("start") /\ ~Running /\ aoapps_mngr_start(appix, app))
        => (/\ aoapps_mngr_appix' = appix
            /\ aoapps_mngr_moderun' # 0
            /\ IF HasFlag(aoapps_mngr_apps[appix].flags, AOAPPS_MNGR_FLAGS_WITHTOPO)
               THEN /\ aoapps_mngr_result' = aoresult_ok
                    /\ aoapps_mngr_state' = "TOPOBUILD"
                    /\ aoapps_mngr_error' = aoresult_ok
                    /\ NumCalls(calls', "topo_build_start") = 1
                    /\ ~HasCall(calls', "app_start")
               ELSE /\ aoapps_mngr_result' = FnResult(aoapps_mngr_apps[appix].start, app)
                    /\ NumCalls(calls', "app_start") = 1
                    /\ ~HasCall(calls', "topo_build_start")
                    /\ aoapps_mngr_state' = aoapps_mngr_state
                    /\ aoapps_mngr_error' = aoapps_mngr_error) ]_vars

\* an app with WITHTOPO has been started after an activation in which an error
\* was shown, later than the begin of the behaviour
C17_Witness ==
  /\ ~halted
  /\ op.fn = "start"
  /\ CurWithTopo /\ Running /\ LatchOk
  /\ aoapps_mngr_state = "TOPOBUILD"
  /\ Gt32(aoapps_mngr_lasterror, U32(0))
  /\ HasCall(calls, "topo_build_start")

\* C18: the manager is stopped after init; no start, switch or switch to the
\* next app returns with the manager stopped (also when the app's own start()
\* returned an error), no stop returns with it running, and no step or
\* register that returns changes the run mode; the run mode changes to
\* running only in a start and to stopped only in a stop.
C18_RunningFromStartToStop ==
  /\ [](aoapps_mngr_moderun \in {0, 1} /\ (op.fn = "init" => ~Running))
  /\ [][ /\ (Ret("start") /\ aoapps_mngr_moderun' # 1) => ~DoStart
         /\ (Ret("switch") /\ aoapps_mngr_moderun' # 1) => ~DoSwitch
         /\ (Ret("switchnext") /\ aoapps_mngr_moderun' # 1) => ~DoSwitchNext
         /\ (Ret("stop") /\ aoapps_mngr_moderun' # 0) => ~DoStop
         /\ (Ret("step") /\ aoapps_mngr_moderun' # aoapps_mngr_moderun) => ~DoStep
         /\ (Ret("register") /\ aoapps_mngr_moderun' # aoapps_mngr_moderun)
            => ~DoRegister
         /\ (aoapps_mngr_moderun = 0 /\ aoapps_mngr_moderun' # 0)
            => (op'.fn = "start" /\ HasCall(calls', "oled_state"))
         /\ (aoapps_mngr_moderun # 0 /\ aoapps_mngr_moderun' = 0)
            => (HasCall(calls', "app_stop") /\ (op'.fn = "stop" \/ halted')) ]_vars

\* a start has returned with an error of the app's own start() in the latch,
\* and the manager is running
C18_Witness ==
  /\ ~halted
  /\ op.fn = "start"
  /\ Running /\ ~LatchOk
  /\ HasCall(calls, "app_start")

\* the call stops the program and leaves the manager as it was, having called
\* no collaborator
FailsUntouched ==
  /\ halted'
  /\ calls' = <<>>
  /\ UNCHANGED << aoapps_mngr_count, aoapps_mngr_apps, aoapps_mngr_appix,
                  aoapps_mngr_moderun, aoapps_mngr_result, aoapps_mngr_lastgrn,
                  aoapps_mngr_lastrepair, aoapps_mngr_lasterror, aoapps_mngr_state,
                  aoapps_mngr_error, led_grn, led_red >>
\* the transition is a start with an index that is not registered
StartOutOfRange ==
  \E appix \in {-1, aoapps_mngr_count} : \E app \in Results :
    aoapps_mngr_start(appix, app)

\* C19: a start while running, a start with an index below 0 or not below the
\* count, and a step, stop, switch or switch to the next app while stopped
\* stop the program, before the manager has changed anything and before a
\* function of an app is called.
C19_PreconditionsFatal ==
  [][ /\ (ApiCall /\ Running /\ Did("start") /\ DoStart) => FailsUntouched
      /\ (ApiCall /\ Did("start") /\ StartOutOfRange) => FailsUntouched
      /\ (ApiCall /\ ~Running
          /\ \/ Did("step") /\ DoStep
             \/ Did("stop") /\ DoStop
             \/ Did("switch") /\ DoSwitch
             \/ Did("switchnext") /\ DoSwitchNext)
         => FailsUntouched ]_vars

\* a call made after a stop, while stopped, has stopped the program
C19_Witness ==
  /\ halted
  /\ ~Running
  /\ op.fn = "stop"
  /\ calls = <<>>
  /\ aoapps_mngr_count >= 2
  /\ aoapps_mngr_appix >= 1

\* C20: with all 8 slots used (the void app and 7 apps), a register call stops
\* the program and leaves the count at 8 and every descriptor as it was,
\* whatever descriptor it is called with.
C20_FullRegistryFatal ==
  [][ \A d \in RegDescs \cup {VoidApp, ZeroApp} :
        (ApiCall /\ aoapps_mngr_count = AOAPPS_MNGR_REGISTRATION_SLOTS
         /\ aoapps_mngr_register(d))
        => (/\ FailsUntouched
            /\ aoapps_mngr_count' = AOAPPS_MNGR_REGISTRATION_SLOTS) ]_vars

\* after the register call that used the last slot has returned, a call has
\* stopped the program with all 8 descriptors in place
C20_Witness ==
  /\ halted
  /\ op = Ev("register", -1)
  /\ aoapps_mngr_count = AOAPPS_MNGR_REGISTRATION_SLOTS
  /\ aoapps_mngr_apps[0] = VoidApp
  /\ \A i \in 1..(AOAPPS_MNGR_REGISTRATION_SLOTS - 1) : aoapps_mngr_apps[i] = SketchApps[i]
  /\ calls = <<>>

\* C21: a register call with a descriptor that breaks a precondition (the name
\* empty or with a character that is not alphanumeric; the name, a display
\* text, a label or a function null; a flag outside WITHTOPO, WITHREPAIR and
\* NEXTONERR; exactly one of cmd and help given) stops the program before the
\* count or a slot has changed.
C21_RejectsMalformed ==
  [][ \A d \in Malformed :
        (ApiCall /\ aoapps_mngr_register(d)) => FailsUntouched ]_vars

\* the indices of the lines aoapps_mngr_cmd_listone() printed, in order
ListLines(c) ==
  LET l == SelectSeq(c, LAMBDA e : e.fn = "serial_listone")
  IN [k \in 1..Len(l) |-> l[k].ix]

\* C22: after aoapps_mngr_init() - the first call or a later one, with apps
\* registered and an app running - the manager is stopped, the count is 1, slot
\* 0 holds the void app, the current index is 0 and the latch is ok; the apps
\* A, B, C registered afterwards in this order are at the indices 1, 2, 3; and
\* "apps list" prints one line per registered app, in the order of the indices.
C22_InitAndOrder ==
  /\ op.fn = "init"
       => /\ ~Running
          /\ aoapps_mngr_count = 1
          /\ aoapps_mngr_apps[0] = VoidApp
          /\ aoapps_mngr_appix = 0
          /\ LatchOk
  /\ \A k \in 1..(aoapps_mngr_count - 1) : aoapps_mngr_apps[k] = CliApps[k]
  /\ (op.fn = "cmd_list" /\ ~halted)
       => ListLines(calls) = [k \in 1..aoapps_mngr_count |-> k - 1]

\* A, B and C were registered, aoapps_mngr_init() was called again, A was
\* registered again, and the two apps are listed
C22_Witness ==
  /\ op.fn = "cmd_list"
  /\ ~halted
  /\ aoapps_mngr_count = 2
  /\ aoapps_mngr_apps[1] = CliApps[1]
  /\ aoapps_mngr_apps[3] = CliApps[3]
  /\ ListLines(calls) = <<0, 1>>

\* the calls of the topo builder and the broadcasts of the repair
ChainCalls ==
  {"topo_build_start", "topo_build_done", "topo_build_step", "topo_numtriplets",
   "send_clrerror", "send_goactive"}

\* C23: while the void app (index 0) is the running app, the latch is ok after
\* the start and after every step, and the call that led there - the start, a
\* switch or a step - called neither the topo builder nor a repair broadcast,
\* however many steps are made and whatever the clock shows.
C23_VoidAppQuiet ==
  (Running /\ aoapps_mngr_appix = 0)
    => /\ LatchOk
       /\ \A k \in 1..Len(calls) : calls[k].fn \notin ChainCalls

\* the void app was stepped after the clock had advanced
C23_Witness ==
  /\ Running
  /\ aoapps_mngr_appix = 0
  /\ ~halted
  /\ op.fn = "step"
  /\ HasCall(calls, "app_step")
  /\ millis # U32(0)
  /\ aoapps_mngr_count >= 2

\* C24: whenever the stop() of the current app is called - by a stop, a switch
\* or a step that switches to the next app - the app's own start() has been
\* called exactly once since the manager started the app, also for an app with
\* WITHTOPO; so no app is stopped that was not started.
C24_StartOncePerActivation ==
  [][ (ApiCall /\ Running /\ HasCall(calls', "app_stop")) => nstart = 1 ]_vars

\* the functions of an app, and the two broadcasts of the repair
AppOps == {"app_start", "app_step", "app_stop"}
Broadcasts == {"send_clrerror", "send_goactive"}
\* the number of calls among c of a function in the set fns
NumOf(c, fns) == Cardinality({k \in 1..Len(c) : c[k].fn \in fns})
\* among the calls c every function of an app comes before every broadcast, and
\* there is at most one broadcast of each kind, clear error first
OpThenRepair(c) ==
  /\ NumCalls(c, "send_clrerror") <= 1
  /\ NumCalls(c, "send_goactive") <= 1
  /\ \A i, j \in 1..Len(c) :
       /\ (c[i].fn \in AppOps /\ c[j].fn \in Broadcasts) => i < j
       /\ (c[i].fn = "send_clrerror" /\ c[j].fn = "send_goactive") => i < j

\* C25 as stated: every step call calls at most one function of an app (a
\* start, step or stop) and makes at most one pair of repair broadcasts, the
\* function of the app first; also the step call that switches to the next app
\* after the error timeout.
C25_OneOperation ==
  [][ Ret("step") => (NumOf(calls', AppOps) <= 1 /\ OpThenRepair(calls')) ]_vars

\* C25, amended: a step call that does not switch to the next app calls at most
\* one function of an app, which is its step() or its start(), and makes at
\* most one pair of repair broadcasts after it; the step call that switches to
\* the next app calls the stop() of the current app and then, unless the next
\* app has WITHTOPO, the start() of the next app, and makes no broadcast.
C25_OneOperationUnlessSwitch ==
  [][ Ret("step") =>
        IF HasCall(calls', "serial_next")
        THEN /\ NumCalls(calls', "app_stop") = 1
             /\ NumCalls(calls', "app_start") =
                  (IF HasFlag(aoapps_mngr_apps[aoapps_mngr_appix'].flags,
                              AOAPPS_MNGR_FLAGS_WITHTOPO) THEN 0 ELSE 1)
             /\ NumCalls(calls', "app_step") = 0
             /\ NumOf(calls', Broadcasts) = 0
             /\ \A i, j \in 1..Len(calls') :
                  (calls'[i].fn = "app_stop" /\ calls'[j].fn = "app_start") => i < j
        ELSE /\ NumOf(calls', AppOps) <= 1
             /\ NumCalls(calls', "app_stop") = 0
             /\ OpThenRepair(calls') ]_vars

\* a step has switched to the next app: it stopped one app and started one
C25_Witness ==
  /\ op.fn = "step"
  /\ ~halted
  /\ HasCall(calls, "serial_next")
  /\ HasCall(calls, "app_stop")
  /\ HasCall(calls, "app_start")

CurWithRepair == HasFlag(CurFlags, AOAPPS_MNGR_FLAGS_WITHREPAIR)
\* the time since the last repair that was completed (or since the init)
SinceRepair == Sub32(millis, aoapps_mngr_lastrepair)
\* the transition is a step, with an ok latch, of a running app with WITHREPAIR
\* whose own step() returns ok
RepairStep ==
  /\ ApiCall /\ Running /\ LatchOk /\ CurWithRepair
  /\ StepWith(aoresult_ok)
\* the transition is a step, with an ok latch, in which the step() of the
\* running app returns an error
FailingStep ==
  /\ ApiCall /\ Running /\ LatchOk
  /\ aoapps_mngr_apps[aoapps_mngr_appix].step # voidapp_fn
  /\ \E r \in Results \ {aoresult_ok} : StepWith(r)
\* a broadcast is only made by a step of a running app with WITHREPAIR and an ok
\* latch whose own step() did not fail, and goactive only after clrerror
BroadcastsInPlace ==
  /\ (ApiCall /\ NumOf(calls', Broadcasts) > 0)
       => (Running /\ LatchOk /\ CurWithRepair /\ Ret("step")
           /\ OpThenRepair(calls') /\ HasCall(calls', "send_clrerror"))
  /\ FailingStep => NumOf(calls', Broadcasts) = 0

\* C26 as stated: in a step of an app with WITHREPAIR whose own step() returned
\* ok, the repair broadcasts are made if and only if at least 250 ms have
\* passed since the last completed repair.
C26_RepairAtLeastPeriod ==
  [][ RepairStep
        => (HasCall(calls', "send_clrerror")
            <=> Ge32(SinceRepair, U32(AOAPPS_MNGR_REPAIR_MS))) ]_vars

\* C26, amended: in a step of an app with WITHREPAIR whose own step() returned
\* ok, the repair broadcasts are made if and only if more than 250 ms have
\* passed since the last completed repair, clear error before go active; no
\* broadcast is made for an app without WITHREPAIR, in a step in which the
\* app's step() failed, or while the latch holds an error.
C26_RepairAfterPeriod ==
  [][ /\ RepairStep
           => (HasCall(calls', "send_clrerror")
               <=> Gt32(SinceRepair, U32(AOAPPS_MNGR_REPAIR_MS)))
      /\ BroadcastsInPlace ]_vars

\* a step exactly 250 ms after a completed repair has made no broadcast
C26_Witness ==
  /\ op.fn = "step"
  /\ ~halted
  /\ Running /\ LatchOk /\ CurWithRepair
  /\ HasCall(calls, "app_step")
  /\ NumOf(calls, Broadcasts) = 0
  /\ aoapps_mngr_lastrepair # U32(0)
  /\ SinceRepair = U32(AOAPPS_MNGR_REPAIR_MS)

\* the transition is a step, with an ok latch, of a running app with WITHREPAIR
\* whose own step() returns ok, more than the period after the last repair,
\* in which the two broadcasts return clr and act
RepairWith(clr, act) ==
  /\ ApiCall /\ Running /\ LatchOk /\ CurWithRepair
  /\ Gt32(SinceRepair, U32(AOAPPS_MNGR_REPAIR_MS))
  /\ Did("step")
  /\ \E done \in TopoDone, ubtrap \in UBTraps, ubval \in UBVals :
       aoapps_mngr_step(done, aoresult_ok, clr, act, ubtrap, ubval)

\* C27: when the clear error broadcast returns an error, the step latches that
\* error and does not send the go active broadcast; when the go active
\* broadcast returns an error, the step latches that error; in both cases the
\* repair does not count as completed.
C27_BroadcastErrorLatched ==
  [][ \A e \in Results \ {aoresult_ok} :
        /\ (\E act \in Results : RepairWith(e, act))
             => /\ aoapps_mngr_result' = e
                /\ NumCalls(calls', "send_clrerror") = 1
                /\ NumCalls(calls', "send_goactive") = 0
                /\ aoapps_mngr_lastrepair' = aoapps_mngr_lastrepair
        /\ RepairWith(aoresult_ok, e)
             => /\ aoapps_mngr_result' = e
                /\ NumCalls(calls', "send_clrerror") = 1
                /\ NumCalls(calls', "send_goactive") = 1
                /\ aoapps_mngr_lastrepair' = aoapps_mngr_lastrepair ]_vars

\* a step has latched the error of the clear error broadcast
C27_Witness ==
  /\ op.fn = "step"
  /\ ~halted
  /\ Running /\ ~LatchOk /\ CurWithRepair
  /\ HasCall(calls, "app_step")
  /\ HasCall(calls, "send_clrerror")
  /\ ~HasCall(calls, "send_goactive")
  /\ HasCall(calls, "serial_error")

\* the position of the first call of fn among the calls c (0 if there is none)
FirstCall(c, fn) ==
  IF HasCall(c, fn)
  THEN CHOOSE k \in 1..Len(c) : c[k].fn = fn /\ \A j \in 1..(k - 1) : c[j].fn # fn
  ELSE 0

\* C28: in every state in which the manager is running, the red (error) LED is
\* on if and only if the latch holds an error, and with an error in the latch
\* the green (heartbeat) LED is off; every start - also the one of a switch -
\* switches the red LED off before it starts the app.
C28_LedsFollowLatch ==
  /\ [](Running => /\ led_red <=> ~LatchOk
                   /\ ~LatchOk => ~led_grn)
  /\ [][ (ApiCall /\ HasCall(calls', "led_on_grn"))
           => /\ HasCall(calls', "led_off_grn_red")
              /\ \A k \in 1..Len(calls') :
                   calls'[k].fn \in {"app_start", "topo_build_start", "led_on_red"}
                     => FirstCall(calls', "led_off_grn_red") < k ]_vars

\* an app that had failed was stopped and started again without error: the red
\* LED, on before, is off
C28_Witness ==
  /\ op.fn = "start"
  /\ ~halted
  /\ Running /\ LatchOk
  /\ ~led_red /\ led_grn
  /\ aoapps_mngr_lasterror # U32(0)

\* C29: in every reachable state every registered app has a configuration
\* handler if and only if it has a help text, so "apps config <app>", whatever
\* apps the name matches, does not fail the assertion that a configurable app
\* has a help text.
C29_CmdIffHelp ==
  /\ \A i \in 0..(aoapps_mngr_count - 1) :
       (aoapps_mngr_apps[i].cmd = 0) <=> (aoapps_mngr_apps[i].help = NULL)
  /\ ~halted => \A match \in Matches : ~cmd_config(St, 3, match).halted

\* "apps config <app>" has printed the help text of a configurable app, with
\* an app that is not configurable registered as well
C29_Witness ==
  /\ op = Ev("cmd_config", 3)
  /\ ~halted
  /\ HasCall(calls, "serial_help")
  /\ aoapps_mngr_count > Len(CliApps)

\* the time since the green LED was last lit by a start or toggled
SinceGreen == Sub32(millis, aoapps_mngr_lastgrn)

\* C30: with an ok latch before and after, the green (heartbeat) LED changes
\* only in a start or a step; aoapps_mngr_lastgrn is the time the LED was last
\* lit by a start or toggled, and a toggle comes at least 500 ms after it; a
\* toggle is made by a step of a running app and leaves the latch ok.
C30_HeartbeatPeriod ==
  [][ /\ (LatchOk /\ LatchOk' /\ led_grn' # led_grn)
           => (Ret("start") \/ Ret("step"))
      /\ (aoapps_mngr_lastgrn' # aoapps_mngr_lastgrn)
           => /\ aoapps_mngr_lastgrn' = millis
              /\ HasCall(calls', "led_toggle_grn") \/ HasCall(calls', "led_on_grn")
      /\ (ApiCall /\ NumCalls(calls', "led_on_grn") > 0)
           => (aoapps_mngr_lastgrn' = millis /\ nstart' <= 1 /\ Running')
      /\ (ApiCall /\ NumCalls(calls', "led_toggle_grn") > 0)
           => /\ Ge32(SinceGreen, U32(AOAPPS_MNGR_HEARTBEAT_MS))
              /\ NumCalls(calls', "led_toggle_grn") = 1
              /\ aoapps_mngr_lastgrn' = millis
              /\ led_grn' = ~led_grn
              /\ Running /\ Running'
              /\ aoapps_mngr_appix' = aoapps_mngr_appix
              /\ Ret("step")
              /\ LatchOk' ]_vars

\* a step 501 ms after the start has toggled the green LED off
C30_Witness ==
  /\ op.fn = "step"
  /\ ~halted
  /\ Running /\ LatchOk
  /\ HasCall(calls, "led_toggle_grn")
  /\ ~led_grn
  /\ millis = U32(2 * AOAPPS_MNGR_REPAIR_MS + 1)
  /\ aoapps_mngr_lastgrn = millis

\* the smallest index in the set m (m is not empty)
Lowest(m) == CHOOSE i \in m : \A j \in m : i <= j
\* the command that leaves the manager in state s has printed one line and
\* done nothing else
OnlyPrinted(s, fn) ==
  /\ ~s.halted
  /\ Len(s.calls) = 1 /\ s.calls[1].fn = fn
  /\ [s EXCEPT !.calls = <<>>] = St
\* the command that leaves the manager in state s has called
\* aoapps_mngr_switch() once, first of all, with appix
SwitchedTo(s, appix) ==
  /\ NumCalls(s.calls, "aoapps_mngr_switch") = 1
  /\ s.calls[1] = Ev("aoapps_mngr_switch", appix)

\* C31: "apps switch <app>" calls aoapps_mngr_switch() only with a registered
\* index: with a number below 0 or not below the count, or a name that matches
\* no registered app, it prints an error, calls no function of an app and
\* leaves the current index, the run mode and the latch as they were; with a
\* name it switches to the matching app with the lowest index.
C31_CmdSwitchInRange ==
  ~halted
    => \A silent \in BOOLEAN, app \in Results :
         /\ \A num \in Indices :
              LET s == cmd_switch(St, 3, TRUE, num, {}, silent, app)
              IN IF 0 <= num /\ num < aoapps_mngr_count
                 THEN SwitchedTo(s, num)
                 ELSE OnlyPrinted(s, "serial_outofbounds")
         /\ \A match \in Matches :
              LET s == cmd_switch(St, 3, FALSE, 0, match, silent, app)
              IN IF match = {}
                 THEN OnlyPrinted(s, "serial_noapp")
                 ELSE SwitchedTo(s, Lowest(match))

\* "apps switch <name>" has stopped the running app and started app 2, an app
\* with WITHTOPO, found by its name
C31_Witness ==
  /\ op = Ev("cmd_switch", -2)
  /\ ~halted
  /\ Running
  /\ aoapps_mngr_appix = 2
  /\ aoapps_mngr_count = 4
  /\ HasCall(calls, "app_stop")
  /\ HasCall(calls, "topo_build_start")

\* the lines aoapps_mngr_cmd_listone() printed among the calls c
Listed(c) == SelectSeq(c, LAMBDA e : e.fn = "serial_listone")

\* C32: in the output of "apps list" exactly one line has the mode "run" or
\* "idle", the line of the current app, with "run" if and only if the manager
\* is running; the lines of all other registered apps have the mode "stop".
C32_ListModes ==
  (op.fn = "cmd_list" /\ ~halted)
    => LET l == Listed(calls)
       IN /\ Len(l) = aoapps_mngr_count
          /\ Cardinality({k \in 1..Len(l) : l[k].mode \in {"run", "idle"}}) = 1
          /\ \A k \in 1..Len(l) :
               /\ l[k].mode \in {"run", "idle"} <=> l[k].ix = aoapps_mngr_appix
               /\ l[k].mode = "run" => Running
               /\ l[k].mode = "idle" => ~Running
               /\ l[k].mode \in {"run", "idle", "stop"}

\* four apps are listed while app 2 is running
C32_Witness ==
  /\ op.fn = "cmd_list"
  /\ ~halted
  /\ Running
  /\ aoapps_mngr_appix = 2
  /\ Len(Listed(calls)) = 4
  /\ Listed(calls)[3].mode = "run"
  /\ Listed(calls)[1].mode = "stop"

\* the indices of the apps whose configuration handler was called among the
\* calls c, in the order of the calls
Handled(c) ==
  LET l == SelectSeq(c, LAMBDA e : e.fn = "app_cmd")
  IN [k \in 1..Len(l) |-> l[k].ix]
\* the indices in the set m below the index n, in ascending order
RECURSIVE Ascending(_, _)
Ascending(m, n) ==
  LET b == {i \in m : i < n}
  IN IF b = {} THEN <<>>
     ELSE LET top == CHOOSE i \in b : \A j \in b : j <= i
          IN Append(Ascending(b, top), top)
\* the apps in match that have no configuration handler
NoHandler(match) == {i \in match : aoapps_mngr_apps[i].cmd = 0}
\* the "config" command that leaves the manager in state s has only printed
\* and called handlers
ConfigFrame(s) == ~s.halted /\ [s EXCEPT !.calls = <<>>] = St

\* C33 as stated: "apps config <app> <args>" calls a configuration handler only
\* for a registered app whose name matches and that has a handler; when a
\* matching app has no handler it prints an error and calls no handler; and no
\* "config" command changes the current index, the run mode or the latch.
C33_ConfigNoHandlerNoCall ==
  ~halted
    => \A match \in Matches :
         LET s == cmd_config(St, 4, match)
         IN /\ \A k \in 1..Len(s.calls) :
                 s.calls[k].fn = "app_cmd"
                   => (s.calls[k].ix \in match
                       /\ aoapps_mngr_apps[s.calls[k].ix].cmd # 0)
            /\ NoHandler(match) # {}
                 => (HasCall(s.calls, "serial_notconfigurable")
                     /\ Handled(s.calls) = <<>>)
            /\ \A argc \in 2..4 : ConfigFrame(cmd_config(St, argc, match))

\* C33, amended: "apps config <app> <args>" goes through the registered apps
\* whose name matches in the order of their indices and calls the handler of
\* each, until it meets one without a handler: there it prints an error and
\* stops, so the handlers of the matching apps with a lower index have been
\* called, and no other; no "config" command changes the current index, the
\* run mode or the latch.
C33_ConfigUntilNoHandler ==
  ~halted
    => \A match \in Matches :
         LET s == cmd_config(St, 4, match)
             bad == NoHandler(match)
         IN /\ \A k \in 1..Len(s.calls) :
                 s.calls[k].fn = "app_cmd"
                   => (s.calls[k].ix \in match
                       /\ aoapps_mngr_apps[s.calls[k].ix].cmd # 0)
            /\ IF bad # {}
               THEN /\ Handled(s.calls) = Ascending(match, Lowest(bad))
                    /\ NumCalls(s.calls, "serial_notconfigurable") = 1
                    /\ s.calls[Len(s.calls)] =
                         Ev("serial_notconfigurable", Lowest(bad))
               ELSE /\ Handled(s.calls) = Ascending(match, aoapps_mngr_count)
                    /\ ~HasCall(s.calls, "serial_notconfigurable")
            /\ \A argc \in 2..4 : ConfigFrame(cmd_config(St, argc, match))

\* the command has called the handler of a matching app and then printed the
\* error for a matching app without a handler, while an app is running
C33_Witness ==
  /\ op = Ev("cmd_config", 4)
  /\ ~halted
  /\ Running
  /\ Handled(calls) = <<2>>
  /\ calls[Len(calls)] = Ev("serial_notconfigurable", 3)

\* C34: whenever the own step() of an app is called, it is the step() of the
\* current app, and the own start() of that app has been called once in this
\* activation, in an earlier call, and has returned ok; so after a start() that
\* failed - called by aoapps_mngr_start() or by the "with topo" wrapper - the
\* step() of the app is not called until the manager starts an app again.
C34_StepAfterOkStart ==
  [][ (ApiCall /\ HasCall(calls', "app_step"))
        => /\ nstart = 1
           /\ startres = aoresult_ok
           /\ nstart' = nstart /\ startres' = startres
           /\ ~HasCall(calls', "app_start")
           /\ \A k \in 1..Len(calls') :
                calls'[k].fn = "app_step" => calls'[k].ix = aoapps_mngr_appix ]_vars

\* the start() of an app with WITHTOPO, called by the wrapper, has failed, and
\* the step made after that has called nothing
C34_Witness ==
  /\ op.fn = "step"
  /\ ~halted
  /\ Running /\ CurWithTopo
  /\ startres \notin {"none", aoresult_ok}
  /\ calls = <<>>

\* the transition is a step, with an ok latch, of a running app with WITHTOPO
\* and WITHREPAIR that has returned
TopoRepairStep ==
  /\ ApiCall /\ Running /\ LatchOk /\ CurWithTopo /\ CurWithRepair
  /\ Ret("step")

\* C35 as stated: for an app with WITHTOPO and WITHREPAIR a repair broadcast is
\* only made in a step in which the wrapper, in APPANIM, called the step() of
\* the app; none in a step with the wrapper in TOPOBUILD, none in a step in
\* which the wrapper went to ERROR.
C35_RepairOnlyInAnim ==
  [][ (TopoRepairStep /\ NumOf(calls', Broadcasts) > 0)
        => /\ aoapps_mngr_state = "APPANIM"
           /\ aoapps_mngr_state' = "APPANIM"
           /\ HasCall(calls', "app_step") ]_vars

\* C35, amended: for an app with WITHTOPO and WITHREPAIR the repair broadcasts
\* are made in every step in which the wrapper returns ok, once more than
\* 250 ms have passed since the last repair: in the steps that find the build
\* not done (also the one in which the builder fails and the wrapper goes to
\* ERROR), in the step that calls the start() of the app and in the steps that
\* call its step(), unless that start() or step() fails.
C35_RepairWhenWrapperOk ==
  [][ TopoRepairStep
        => (HasCall(calls', "send_clrerror")
            <=> /\ Gt32(SinceRepair, U32(AOAPPS_MNGR_REPAIR_MS))
                /\ \/ HasCall(calls', "topo_build_step")
                   \/ aoapps_mngr_error' = aoresult_ok) ]_vars

\* a step that found the build not done, and in which the builder failed, has
\* made a repair broadcast
C35_Witness ==
  /\ op.fn = "step"
  /\ ~halted
  /\ Running /\ CurWithTopo /\ CurWithRepair
  /\ HasCall(calls, "topo_build_step")
  /\ HasCall(calls, "send_clrerror")
  /\ aoapps_mngr_state = "ERROR"

\* C36: with aoapps_mngr_step() called again and again for a running app with
\* WITHTOPO, the wrapper leaves TOPOBUILD for APPANIM once the build is done,
\* unless a builder, app or broadcast call fails or the app is stopped; in
\* APPANIM every step with an ok latch calls the step() of the app; and the
\* wrapper only gets back to TOPOBUILD from APPANIM or ERROR by a start.
C36_PreludeEnds ==
  /\ (Running /\ CurWithTopo /\ LatchOk /\ aoapps_mngr_state = "TOPOBUILD")
       ~> \/ (Running /\ CurWithTopo /\ aoapps_mngr_state = "APPANIM" /\ nstart = 1)
          \/ ~Running
          \/ ~LatchOk
          \/ aoapps_mngr_state = "ERROR"
  /\ [][ /\ (ApiCall /\ Running /\ LatchOk /\ CurWithTopo /\ Ret("step")
             /\ aoapps_mngr_state = "APPANIM")
              => /\ NumCalls(calls', "app_step") = 1
                 /\ aoapps_mngr_state' \in {"APPANIM", "ERROR"}
                 /\ aoapps_mngr_state' = "ERROR" <=> aoapps_mngr_error' # aoresult_ok
         /\ (aoapps_mngr_state \in {"APPANIM", "ERROR"}
             /\ aoapps_mngr_state' = "TOPOBUILD")
              => (HasCall(calls', "topo_build_start") /\ HasCall(calls', "led_on_grn")
                  /\ nstart' = 0) ]_vars

\* the build was found not done MaxPolls times, then done: the app was started
\* and has since been stepped
C36_Witness ==
  /\ op.fn = "step"
  /\ Running /\ CurWithTopo /\ LatchOk
  /\ aoapps_mngr_state = "APPANIM"
  /\ nstart = 1
  /\ npoll = MaxPolls
  /\ HasCall(calls, "app_step")

\* a step has just switched to the next app by itself: it stopped the current
\* app, then started the next one
Escalated ==
  /\ op = Ev("step", -1)
  /\ HasCall(calls, "serial_next")
  /\ HasCall(calls, "app_stop")
  /\ HasCall(calls, "oled_state")
  /\ FirstCall(calls, "app_stop") < FirstCall(calls, "oled_state")

\* C37: with an error in the latch of a running app with NEXTONERR, and
\* aoapps_mngr_step() called again and again while the clock goes on, a step
\* switches to the next app (unless the app is stopped before); the step that
\* switches stops the current app and then starts the app at index
\* (appix mod (count-1)) + 1, the same app when only one app is registered
\* besides the void app. Without NEXTONERR no step, registration or passing
\* of time changes the current app, the running mode or the latch.
C37_ErrorEscalates ==
  /\ (Running /\ ~LatchOk /\ CurNextOnErr /\ ticks < MaxLiveTicks)
       ~> (Escalated \/ ~Running)
  /\ [][ /\ (ApiCall /\ Running /\ ~LatchOk /\ Ret("step")
             /\ HasCall(calls', "serial_next"))
              => /\ CurNextOnErr
                 /\ Escalated'
                 /\ aoapps_mngr_moderun' # 0
                 /\ aoapps_mngr_appix' = NextIndex
                 /\ (aoapps_mngr_count = 2 => aoapps_mngr_appix' = aoapps_mngr_appix)
         /\ (Running /\ ~LatchOk /\ ~CurNextOnErr
             /\ op'.fn \notin {"stop", "switch", "switchnext"})
              => /\ aoapps_mngr_appix' = aoapps_mngr_appix
                 /\ aoapps_mngr_moderun' = aoapps_mngr_moderun
                 /\ aoapps_mngr_result' = aoapps_mngr_result ]_vars

\* with one app registered besides the void app, a step has stopped the app
\* with NEXTONERR and started it again
C37_Witness ==
  /\ Escalated
  /\ Running
  /\ aoapps_mngr_count = 2
  /\ aoapps_mngr_appix = 1
  /\ CurNextOnErr

\* C39: a call of aoapps_mngr_stop() that returns calls the stop() of the
\* current app and nothing else, and clears the running mode; the current app,
\* the latch, the state and error of the wrapper, the registry, the LEDs and
\* the times of the last heartbeat, repair and error stay as they were.
C39_StopFrame ==
  [][ Ret("stop") =>
        /\ calls' = << Ev("app_stop", aoapps_mngr_appix) >>
        /\ aoapps_mngr_moderun # 0
        /\ aoapps_mngr_moderun' = 0
        /\ aoapps_mngr_appix' = aoapps_mngr_appix
        /\ aoapps_mngr_result' = aoapps_mngr_result
        /\ aoapps_mngr_state' = aoapps_mngr_state
        /\ aoapps_mngr_error' = aoapps_mngr_error
        /\ aoapps_mngr_count' = aoapps_mngr_count
        /\ aoapps_mngr_apps' = aoapps_mngr_apps
        /\ led_grn' = led_grn
        /\ led_red' = led_red
        /\ aoapps_mngr_lastgrn' = aoapps_mngr_lastgrn
        /\ aoapps_mngr_lastrepair' = aoapps_mngr_lastrepair
        /\ aoapps_mngr_lasterror' = aoapps_mngr_lasterror ]_vars

\* an app with an error in the latch has been stopped: it is still the current
\* app, the error is still in the latch and the red LED is still on
C39_Witness ==
  /\ ~halted
  /\ op = Ev("stop", -1)
  /\ calls = << Ev("app_stop", aoapps_mngr_appix) >>
  /\ aoapps_mngr_moderun = 0
  /\ aoapps_mngr_appix # 0
  /\ ~LatchOk
  /\ led_red

\* C40: a step that returns without the switch to the next app leaves the
\* current app, the running mode and the registry as they were; a register
\* call that returns leaves the current app, the running mode, the latch and
\* the state and error of the wrapper as they were, and adds one app.
C40_StepAndRegisterFrame ==
  [][ /\ (Ret("step") /\ ~HasCall(calls', "serial_next"))
           => /\ aoapps_mngr_appix' = aoapps_mngr_appix
              /\ aoapps_mngr_moderun' = aoapps_mngr_moderun
              /\ aoapps_mngr_count' = aoapps_mngr_count
              /\ aoapps_mngr_apps' = aoapps_mngr_apps
      /\ Ret("register")
           => /\ aoapps_mngr_appix' = aoapps_mngr_appix
              /\ aoapps_mngr_moderun' = aoapps_mngr_moderun
              /\ aoapps_mngr_result' = aoapps_mngr_result
              /\ aoapps_mngr_state' = aoapps_mngr_state
              /\ aoapps_mngr_error' = aoapps_mngr_error
              /\ aoapps_mngr_count' = aoapps_mngr_count + 1 ]_vars

\* an app was registered while another app was running with an error in the
\* latch: that app is still running
C40_Witness ==
  /\ ~halted
  /\ op = Ev("register", -1)
  /\ Running
  /\ ~LatchOk
  /\ aoapps_mngr_appix # 0
  /\ aoapps_mngr_appix < aoapps_mngr_count - 1

\* the time t of the clock on an axis without wrap: the milliseconds from the
\* wrap of the clock to t, negative before the wrap
FromWrap(t) ==
  IF t[1] >= H16 \div 2 THEN (t[1] - H16) * H16 + t[2] ELSE t[1] * H16 + t[2]
\* the milliseconds that have passed from the time last to now
Elapsed(last) == FromWrap(millis) - FromWrap(last)

\* C38: also with the wrap of the clock between the time kept and now, a step
\* with an error in the latch and NEXTONERR switches to the next app exactly
\* when more than 10000 ms have passed since the error, a step of an app with
\* WITHREPAIR whose own step() is ok makes the broadcasts exactly when more than
\* 250 ms have passed since the last repair, and a step that starts and ends
\* with an ok latch toggles the green LED exactly when more than 500 ms have
\* passed since it was lit or toggled.
C38_TimersOverWrap ==
  [][ /\ (ApiCall /\ Running /\ ~LatchOk /\ CurNextOnErr /\ Ret("step"))
           => (HasCall(calls', "serial_next")
               <=> Elapsed(aoapps_mngr_lasterror) > AOAPPS_MNGR_ERROR_MS)
      /\ RepairStep
           => (HasCall(calls', "send_clrerror")
               <=> Elapsed(aoapps_mngr_lastrepair) > AOAPPS_MNGR_REPAIR_MS)
      /\ (ApiCall /\ Running /\ LatchOk /\ Ret("step") /\ LatchOk')
           => (HasCall(calls', "led_toggle_grn")
               <=> Elapsed(aoapps_mngr_lastgrn) > AOAPPS_MNGR_HEARTBEAT_MS) ]_vars

\* the error was shown before the wrap of the clock, and a step after the wrap
\* has switched to the next app
C38_Witness ==
  /\ Escalated
  /\ LatchOk
  /\ aoapps_mngr_lasterror[1] = H16 - 1
  /\ millis[1] = 0
  /\ Elapsed(aoapps_mngr_lasterror) > AOAPPS_MNGR_ERROR_MS

====
